---- MODULE Spec2Model ----
(***************************************************************************)
(* Model of the MCS-96 (196EA) instruction decoder of disasm/196ea_opc.go: *)
(* the opcode tables, Parse, the control-flow recorder (XRef, Call, Jump), *)
(* the offset calculator (getOffset), the operand resolvers and doPseudo.  *)
(*                                                                         *)
(* Go values are represented as follows.                                   *)
(*   byte           a number in 0..255                                     *)
(*   int            an integer (the 64-bit width is never approached)      *)
(*   []byte, []T    a sequence; a nil slice is the empty sequence          *)
(*   string         a TLA+ string                                          *)
(*   map[K]V        a function whose DOMAIN is the key set; a nil map is   *)
(*                  the function with the empty domain                     *)
(*   struct         a record                                               *)
(* The field LongDescription of Instruction is left out: no statement of   *)
(* the decoder reads or writes it.  The slice handed to Parse is taken to  *)
(* have cap(in) = len(in).                                                 *)
(***************************************************************************)
EXTENDS Integers, Sequences, FiniteSets, TLC

(***************************************************************************)
(* Bounds of the model.                                                    *)
(***************************************************************************)
\* length of the binary image handed to the decoder
MaxLen == 7
\* number of load addresses of the image that are tried
NumBases == 1

(***************************************************************************)
(* Maps.                                                                   *)
(***************************************************************************)
EmptyMap == <<>>

\* m[k] = v
MapPut(m, k, v) == [x \in (DOMAIN m) \cup {k} |-> IF x = k THEN v ELSE m[x]]

\* m[k] of a map whose values are slices: a missing key reads as nil
MapGet(m, k) == IF k \in DOMAIN m THEN m[k] ELSE <<>>

(***************************************************************************)
(* Byte arithmetic.                                                        *)
(***************************************************************************)
\* b & 0x01
Bit0(b) == b % 2

\* b & 0xFE
ClearBit0(b) == b - (b % 2)

\* b & 0xF8
HiFive(b) == b - (b % 8)

\* b & 0xF0
HiNibble(b) == b - (b % 16)

\* b & 0xE0
HiThree(b) == b - (b % 32)

\* b & 0x07
LowThree(b) == b % 8

\* b & 0x10 == 0x10
Bit4Set(b) == (b \div 16) % 2 = 1

\* b & 0x08 == 0x08
Bit3Set(b) == (b \div 8) % 2 = 1

\* b & 0x04 == 0x04
Bit2Set(b) == (b \div 4) % 2 = 1

\* value of a 16-bit pattern read as int16
AsInt16(w) == IF w % 65536 >= 32768 THEN (w % 65536) - 65536 ELSE w % 65536

(***************************************************************************)
(* fmt.Sprintf for the verbs the decoder uses: %X, %02X, %04X, %06X, %d    *)
(* and %s.                                                                 *)
(***************************************************************************)
HexDigits == <<"0", "1", "2", "3", "4", "5", "6", "7", "8", "9", "A", "B", "C", "D", "E", "F">>

RECURSIVE HexStr(_)
HexStr(n) == IF n < 16 THEN HexDigits[n + 1] ELSE HexStr(n \div 16) \o HexDigits[(n % 16) + 1]

RECURSIVE DecStr(_)
DecStr(n) == IF n < 10 THEN HexDigits[n + 1] ELSE DecStr(n \div 10) \o HexDigits[(n % 10) + 1]

RECURSIVE Zeros(_)
Zeros(n) == IF n <= 0 THEN "" ELSE "0" \o Zeros(n - 1)

\* a number with its sign and zero padding to the given width
Padded(sign, digits, width) == sign \o Zeros(width - Len(sign) - Len(digits)) \o digits

FmtHex(v, width) == IF v < 0 THEN Padded("-", HexStr(-v), width) ELSE Padded("", HexStr(v), width)

FmtDec(v) == IF v < 0 THEN "-" \o DecStr(-v) ELSE DecStr(v)

\* index of the first occurrence of pat in s at or after position i, 0 if none
RECURSIVE IndexFrom(_, _, _)
IndexFrom(s, pat, i) ==
  IF i + Len(pat) - 1 > Len(s) THEN 0
  ELSE IF SubSeq(s, i, i + Len(pat) - 1) = pat THEN i
  ELSE IndexFrom(s, pat, i + 1)

\* strings.Replace(s, old, new, 1)
Replace1(s, old, new) ==
  LET i == IndexFrom(s, old, 1)
  IN  IF i = 0 THEN s
      ELSE SubSeq(s, 1, i - 1) \o new \o SubSeq(s, i + Len(old), Len(s))

\* the verb at the head of f (f starts with "%"): its length and the text
\* it produces for the argument a
VerbAt(f, a) ==
  IF Len(f) >= 2 /\ SubSeq(f, 1, 2) = "%X" THEN [len |-> 2, text |-> FmtHex(a, 0)]
  ELSE IF Len(f) >= 2 /\ SubSeq(f, 1, 2) = "%d" THEN [len |-> 2, text |-> FmtDec(a)]
  ELSE IF Len(f) >= 2 /\ SubSeq(f, 1, 2) = "%s" THEN [len |-> 2, text |-> a]
  ELSE IF Len(f) >= 4 /\ SubSeq(f, 1, 4) = "%02X" THEN [len |-> 4, text |-> FmtHex(a, 2)]
  ELSE IF Len(f) >= 4 /\ SubSeq(f, 1, 4) = "%04X" THEN [len |-> 4, text |-> FmtHex(a, 4)]
  ELSE IF Len(f) >= 4 /\ SubSeq(f, 1, 4) = "%06X" THEN [len |-> 4, text |-> FmtHex(a, 6)]
  ELSE [len |-> 1, text |-> "%!(NOVERB)"]

RECURSIVE Sprintf(_, _)
Sprintf(f, args) ==
  LET i == IndexFrom(f, "%", 1)
  IN  IF i = 0 THEN f
      ELSE IF args = <<>> THEN f
      ELSE LET rest == SubSeq(f, i, Len(f))
               v    == VerbAt(rest, Head(args))
           IN  SubSeq(f, 1, i - 1) \o v.text
                 \o Sprintf(SubSeq(rest, v.len + 1, Len(rest)), Tail(args))

(***************************************************************************)
(* Data model.                                                             *)
(***************************************************************************)
\* the zero value of Instruction
ZeroInstruction ==
  [Op |-> 0, Address |-> 0, XRefs |-> EmptyMap, Calls |-> EmptyMap, Jumps |-> EmptyMap,
   Raw |-> <<>>, RawOps |-> <<>>, Mnemonic |-> "", ByteLength |-> 0, VarCount |-> 0,
   VarStrings |-> <<>>, Vars |-> EmptyMap, PseudoCode |-> "", PseudoString |-> "",
   VarTypes |-> <<>>, AddressingMode |-> "", Description |-> "",
   VariableLength |-> FALSE, AutoIncrement |-> FALSE, Signed |-> FALSE,
   Ignore |-> FALSE, Reserved |-> FALSE, Checked |-> FALSE]

\* the zero value of Variable
ZeroVariable == [Description |-> "", Type |-> "", Value |-> "", Bits |-> 0]

\* an entry of VarObjs
V(desc, bits) == [ZeroVariable EXCEPT !.Description = desc, !.Bits = bits]

\* a composite literal of the opcode tables; the fields a literal does not
\* name keep their zero value
T(mn, bl, vc, vt, vs, am, desc, vl, ign, res) ==
  [ZeroInstruction EXCEPT !.Mnemonic = mn, !.ByteLength = bl, !.VarCount = vc,
                          !.VarTypes = vt, !.VarStrings = vs, !.AddressingMode = am,
                          !.Description = desc, !.VariableLength = vl,
                          !.Ignore = ign, !.Reserved = res]

VarObjsInit ==
     ("aa" :> V("A 2-bit field within an opcode that selects the basic addressing mode used. This field is present only in those opcodes that allow addressing mode options. ", 2))
  @@ ("baop" :> V("A byte operand that is addressed by any addressing mode.", 8))
  @@ ("bbb" :> V("A 3-bit field within an opcode that selects a specific bit within a register.", 3))
  @@ ("bitno" :> V("A 3-bit field within an opcode that selects one of the eight bits in a byte. ", 3))
  @@ ("breg" :> V("A byte register in the internal register file. When it could be unclear whether this variable refers to a source or a destination register, it is prefixed with an S or a D. The value must be in the range of 00-FFH.", 8))
  @@ ("cadd" :> V("An address in the program code", 0))
  @@ ("Dbreg" :> V("A byte register in the lower register file that serves as the destination of the instruction operation. ", 8))
  @@ ("disp" :> V("Displacement. The distance between the end of an instruction and the target label.", 0))
  @@ ("Dlreg" :> V("A 32-bit register in the lower register file that serves as the destination of the instruction operation. Must be aligned on an address that is evenly divisible by 4. The value must be in the range of 00-FCH.", 8))
  @@ ("Dwreg" :> V("A word register in the lower register file that serves as the destination of the instruction operation. Must be aligned on an address that is evenly divisible by 2. The value must be in the range of 00-FEH.", 8))
  @@ ("lreg" :> V("A 32-bit register in the lower register file. Must be aligned on an address that is evenly divisible by 4. The value must be in the range of 00-FCH. ", 8))
  @@ ("ptr2_reg" :> V(" A double-pointer register, used with the EBMOVI instruction. Must be aligned on an address that is evenly divisible by 8. The value must be in the range of 00-F8H. ", 8))
  @@ ("preg" :> V("A pointer register. Must be aligned on an address that is evenly divisible by 4. The value must be in the range of 00-FCH. ", 8))
  @@ ("Sbreg" :> V("A byte register in the lower register file that serves as the source of the instruction operation.", 8))
  @@ ("Slreg" :> V("A 32-bit register in the lower register file that serves as the source of the instruction operation. Must be aligned on an address that is evenly divisible by 4. The value must be in the range of 00-FCH.", 8))
  @@ ("Swreg" :> V("A word register in the lower register file that serves as the source of the instruction operation. Must be aligned on an address that is evenly divisible by 2. The value must be in the range of 00-FEH.", 8))
  @@ ("treg" :> V("A 24-bit register in the lower register file. Must be aligned on an address that is evenly divisible by 4. The value must be in the range of 00-FCH.", 8))
  @@ ("waop" :> V("A word operand that is addressed by any addressing mode.", 16))
  @@ ("w2_reg" :> V("A double-word register in the lower register file. Must be aligned on an address that is evenly divisible by 4. The value must be in the range of 00-FCH. Although w2_reg is similar to lreg, there is a distinction: w2_reg consists of two halves, each containing a 16-bit address; lreg is indivisible and contains a 32-bit number.", 0))
  @@ ("wreg" :> V("A word register in the lower register file. When it could be unclear whether this variable refers to a source or a destination register, it is prefixed with an S or a D. Must be aligned on an address that is evenly divisible by 2. The value must be in the range of 00-FEH.", 0))
  @@ ("xxx" :> V("The three high-order bits of displacement", 3))

unsignedTemplates ==
  <<
  (* 0x00 *) T("SKIP", 2, 0, <<"ByteReg">>, <<"breg">>, "direct", "TWO BYTE NO-OPERATION.", FALSE, TRUE, FALSE),
  (* 0x01 *) T("CLR", 2, 1, <<"DEST">>, <<"wreg">>, "direct", "CLEAR WORD.", FALSE, FALSE, FALSE),
  (* 0x02 *) T("NOT", 2, 1, <<"DEST">>, <<"wreg">>, "direct", "COMPLEMENT WORD.", FALSE, FALSE, FALSE),
  (* 0x03 *) T("NEG", 2, 1, <<"DEST">>, <<"wreg">>, "direct", "NEGATE INTEGER.", FALSE, FALSE, FALSE),
  (* 0x04 *) T("XCH", 3, 2, <<"DEST", "SRC">>, <<"wreg", "waop">>, "direct", "EXCHANGE WORD.", FALSE, FALSE, FALSE),
  (* 0x05 *) T("DEC", 2, 1, <<"DEST">>, <<"breg">>, "direct", "DECREMENT WORD.", FALSE, FALSE, FALSE),
  (* 0x06 *) T("EXT", 2, 1, <<"DEST">>, <<"lreg">>, "direct", "SIGN-EXTEND INTEGER INTO LONGINTEGER.", FALSE, FALSE, FALSE),
  (* 0x07 *) T("INC", 2, 1, <<"DEST">>, <<"wreg">>, "direct", "INCREMENT WORD.", FALSE, FALSE, FALSE),
  (* 0x08 *) T("SHR", 3, 2, <<"DEST", "COUNT">>, <<"wreg", "breg/#count">>, "direct", "LOGICAL RIGHT SHIFT WORD.", FALSE, FALSE, FALSE),
  (* 0x09 *) T("SHL", 3, 2, <<"DEST", "COUNT">>, <<"wreg", "breg/#count">>, "direct", "SHIFT WORD LEFT.", FALSE, FALSE, FALSE),
  (* 0x0A *) T("SHRA", 3, 2, <<"DEST", "COUNT">>, <<"wreg", "breg/#count">>, "direct", "ARITHMETIC RIGHT SHIFT WORD.", FALSE, FALSE, FALSE),
  (* 0x0B *) T("XCH", 4, 2, <<"DEST", "SRC">>, <<"wreg", "waop">>, "indexed", "EXCHANGE WORD", TRUE, FALSE, FALSE),
  (* 0x0C *) T("SHRL", 3, 2, <<"DEST", "COUNT">>, <<"lreg", "breg/#count">>, "direct", "LOGICAL RIGHT SHIFT DOUBLE-WORD.", FALSE, FALSE, FALSE),
  (* 0x0D *) T("SHLL", 3, 2, <<"DEST", "COUNT">>, <<"lreg", "breg/#count">>, "direct", "SHIFT DOUBLE-WORD LEFT.", FALSE, FALSE, FALSE),
  (* 0x0E *) T("SHRAL", 3, 2, <<"DEST", "COUNT">>, <<"lreg", "breg/#count">>, "direct", "ARITHMETIC RIGHT SHIFT DOUBLEWORD.", FALSE, FALSE, FALSE),
  (* 0x0F *) T("NORML", 3, 2, <<"SRC", "DEST">>, <<"lreg", "breg">>, "direct", "NORMALIZE LONG-INTEGER.", FALSE, FALSE, FALSE),
  (* 0x10 *) T("Reserved", 1, 0, <<>>, <<>>, "", "", FALSE, FALSE, TRUE),
  (* 0x11 *) T("CLRB", 2, 1, <<"DEST">>, <<"breg">>, "direct", "CLEAR BYTE.", FALSE, FALSE, FALSE),
  (* 0x12 *) T("NOTB", 2, 1, <<"DEST">>, <<"breg">>, "direct", "COMPLEMENT BYTE.", FALSE, FALSE, FALSE),
  (* 0x13 *) T("NEGB", 2, 1, <<"DEST">>, <<"breg">>, "direct", "NEGATE SHORT-INTEGER.", FALSE, FALSE, FALSE),
  (* 0x14 *) T("XCHB", 3, 2, <<"DEST", "SRC">>, <<"breg", "baop">>, "direct", "EXCHANGE BYTE.", FALSE, FALSE, FALSE),
  (* 0x15 *) T("DECB", 2, 1, <<"DEST">>, <<"breg">>, "direct", "DECREMENT BYTE.", FALSE, FALSE, FALSE),
  (* 0x16 *) T("EXTB", 2, 1, <<"DEST">>, <<"wreg">>, "direct", "SIGN-EXTEND SHORT-INTEGER INTO INTEGER.", FALSE, FALSE, FALSE),
  (* 0x17 *) T("INCB", 2, 1, <<"DEST">>, <<"breg">>, "direct", "INCREMENT BYTE.", FALSE, FALSE, FALSE),
  (* 0x18 *) T("SHRB", 3, 2, <<"DEST", "COUNT">>, <<"breg", "breg/#count">>, "direct", "LOGICAL RIGHT SHIFT BYTE.", FALSE, FALSE, FALSE),
  (* 0x19 *) T("SHLB", 3, 2, <<"DEST", "COUNT">>, <<"breg", "breg/#count">>, "direct", "SHIFT BYTE LEFT.", FALSE, FALSE, FALSE),
  (* 0x1A *) T("SHRAB", 3, 2, <<"DEST", "COUNT">>, <<"breg", "breg/#count">>, "direct", "", FALSE, FALSE, FALSE),
  (* 0x1B *) T("XCHB", 4, 2, <<"DEST", "COUNT">>, <<"breg", "breg/#count">>, "indexed", "ARITHMETIC RIGHT SHIFT BYTE.", TRUE, FALSE, FALSE),
  (* 0x1C *) T("EST", 3, 2, <<"SRC", "DEST">>, <<"wreg", "treg">>, "extended-indirect", "EXTENDED STORE WORD.", FALSE, FALSE, FALSE),
  (* 0x1D *) T("EST", 6, 2, <<"SRC", "DEST">>, <<"wreg", "treg">>, "extended-indexed", "EXTENDED STORE WORD.", FALSE, FALSE, FALSE),
  (* 0x1E *) T("ESTB", 3, 2, <<"SRC", "DEST">>, <<"breg", "treg">>, "extended-indirect", "EXTENDED STORE BYTE.", FALSE, FALSE, FALSE),
  (* 0x1F *) T("ESTB", 6, 2, <<"SRC", "DEST">>, <<"breg", "treg">>, "extended-indexed", "EXTENDED STORE BYTE.", FALSE, FALSE, FALSE),
  (* 0x20 *) T("SJMP", 2, 1, <<"ADDR">>, <<"cadd">>, "indexed", "SHORT JUMP.", FALSE, FALSE, FALSE),
  (* 0x21 *) T("SJMP", 2, 1, <<"ADDR">>, <<"cadd">>, "indexed", "SHORT JUMP.", FALSE, FALSE, FALSE),
  (* 0x22 *) T("SJMP", 2, 1, <<"ADDR">>, <<"cadd">>, "indexed", "SHORT JUMP.", FALSE, FALSE, FALSE),
  (* 0x23 *) T("SJMP", 2, 1, <<"ADDR">>, <<"cadd">>, "indexed", "SHORT JUMP.", FALSE, FALSE, FALSE),
  (* 0x24 *) T("SJMP", 2, 1, <<"ADDR">>, <<"cadd">>, "indexed", "SHORT JUMP.", FALSE, FALSE, FALSE),
  (* 0x25 *) T("SJMP", 2, 1, <<"ADDR">>, <<"cadd">>, "indexed", "SHORT JUMP.", FALSE, FALSE, FALSE),
  (* 0x26 *) T("SJMP", 2, 1, <<"ADDR">>, <<"cadd">>, "indexed", "SHORT JUMP.", FALSE, FALSE, FALSE),
  (* 0x27 *) T("SJMP", 2, 1, <<"ADDR">>, <<"cadd">>, "indexed", "SHORT JUMP.", FALSE, FALSE, FALSE),
  (* 0x28 *) T("SCALL", 2, 1, <<"ADDR">>, <<"cadd">>, "indexed", "SHORT CALL.", FALSE, FALSE, FALSE),
  (* 0x29 *) T("SCALL", 2, 1, <<"ADDR">>, <<"cadd">>, "indexed", "SHORT CALL.", FALSE, FALSE, FALSE),
  (* 0x2A *) T("SCALL", 2, 1, <<"ADDR">>, <<"cadd">>, "indexed", "SHORT CALL.", FALSE, FALSE, FALSE),
  (* 0x2B *) T("SCALL", 2, 1, <<"ADDR">>, <<"cadd">>, "indexed", "SHORT CALL.", FALSE, FALSE, FALSE),
  (* 0x2C *) T("SCALL", 2, 1, <<"ADDR">>, <<"cadd">>, "indexed", "SHORT CALL.", FALSE, FALSE, FALSE),
  (* 0x2D *) T("SCALL", 2, 1, <<"ADDR">>, <<"cadd">>, "indexed", "SHORT CALL.", FALSE, FALSE, FALSE),
  (* 0x2E *) T("SCALL", 2, 1, <<"ADDR">>, <<"cadd">>, "indexed", "SHORT CALL.", FALSE, FALSE, FALSE),
  (* 0x2F *) T("SCALL", 2, 1, <<"ADDR">>, <<"cadd">>, "indexed", "SHORT CALL.", FALSE, FALSE, FALSE),
  (* 0x30 *) T("JBC", 3, 3, <<"BYTEREG", "BITNO", "ADDR">>, <<"breg", "bitno", "cadd">>, "indexed", "JUMP IF BIT IS CLEAR.", FALSE, FALSE, FALSE),
  (* 0x31 *) T("JBC", 3, 3, <<"BYTEREG", "BITNO", "ADDR">>, <<"breg", "bitno", "cadd">>, "indexed", "JUMP IF BIT IS CLEAR.", FALSE, FALSE, FALSE),
  (* 0x32 *) T("JBC", 3, 3, <<"BYTEREG", "BITNO", "ADDR">>, <<"breg", "bitno", "cadd">>, "indexed", "JUMP IF BIT IS CLEAR.", FALSE, FALSE, FALSE),
  (* 0x33 *) T("JBC", 3, 3, <<"BYTEREG", "BITNO", "ADDR">>, <<"breg", "bitno", "cadd">>, "indexed", "JUMP IF BIT IS CLEAR.", FALSE, FALSE, FALSE),
  (* 0x34 *) T("JBC", 3, 3, <<"BYTEREG", "BITNO", "ADDR">>, <<"breg", "bitno", "cadd">>, "indexed", "JUMP IF BIT IS CLEAR.", FALSE, FALSE, FALSE),
  (* 0x35 *) T("JBC", 3, 3, <<"BYTEREG", "BITNO", "ADDR">>, <<"breg", "bitno", "cadd">>, "indexed", "JUMP IF BIT IS CLEAR.", FALSE, FALSE, FALSE),
  (* 0x36 *) T("JBC", 3, 3, <<"BYTEREG", "BITNO", "ADDR">>, <<"breg", "bitno", "cadd">>, "indexed", "JUMP IF BIT IS CLEAR.", FALSE, FALSE, FALSE),
  (* 0x37 *) T("JBC", 3, 3, <<"BYTEREG", "BITNO", "ADDR">>, <<"breg", "bitno", "cadd">>, "indexed", "JUMP IF BIT IS CLEAR.", FALSE, FALSE, FALSE),
  (* 0x38 *) T("JBS", 3, 3, <<"BYTEREG", "BITNO", "ADDR">>, <<"breg", "bitno", "cadd">>, "indexed", "JUMP IF BIT IS SET.", FALSE, FALSE, FALSE),
  (* 0x39 *) T("JBS", 3, 3, <<"BYTEREG", "BITNO", "ADDR">>, <<"breg", "bitno", "cadd">>, "indexed", "JUMP IF BIT IS SET.", FALSE, FALSE, FALSE),
  (* 0x3A *) T("JBS", 3, 3, <<"BYTEREG", "BITNO", "ADDR">>, <<"breg", "bitno", "cadd">>, "indexed", "JUMP IF BIT IS SET.", FALSE, FALSE, FALSE),
  (* 0x3B *) T("JBS", 3, 3, <<"BYTEREG", "BITNO", "ADDR">>, <<"breg", "bitno", "cadd">>, "indexed", "JUMP IF BIT IS SET.", FALSE, FALSE, FALSE),
  (* 0x3C *) T("JBS", 3, 3, <<"BYTEREG", "BITNO", "ADDR">>, <<"breg", "bitno", "cadd">>, "indexed", "JUMP IF BIT IS SET.", FALSE, FALSE, FALSE),
  (* 0x3D *) T("JBS", 3, 3, <<"BYTEREG", "BITNO", "ADDR">>, <<"breg", "bitno", "cadd">>, "indexed", "JUMP IF BIT IS SET.", FALSE, FALSE, FALSE),
  (* 0x3E *) T("JBS", 3, 3, <<"BYTEREG", "BITNO", "ADDR">>, <<"breg", "bitno", "cadd">>, "indexed", "JUMP IF BIT IS SET.", FALSE, FALSE, FALSE),
  (* 0x3F *) T("JBS", 3, 3, <<"BYTEREG", "BITNO", "ADDR">>, <<"breg", "bitno", "cadd">>, "indexed", "JUMP IF BIT IS SET.", FALSE, FALSE, FALSE),
  (* 0x40 *) T("AND", 4, 3, <<"DEST", "SRC1", "SRC2">>, <<"Dwreg", "Swreg", "waop">>, "direct", "LOGICAL AND WORDS.", FALSE, FALSE, FALSE),
  (* 0x41 *) T("AND", 5, 3, <<"DEST", "SRC1", "SRC2">>, <<"Dwreg", "Swreg", "waop">>, "immediate", "LOGICAL AND WORDS.", FALSE, FALSE, FALSE),
  (* 0x42 *) T("AND", 4, 3, <<"DEST", "SRC1", "SRC2">>, <<"Dwreg", "Swreg", "waop">>, "indirect", "LOGICAL AND WORDS.", FALSE, FALSE, FALSE),
  (* 0x43 *) T("AND", 5, 3, <<"DEST", "SRC1", "SRC2">>, <<"Dwreg", "Swreg", "waop">>, "indexed", "LOGICAL AND WORDS.", TRUE, FALSE, FALSE),
  (* 0x44 *) T("ADD", 4, 3, <<"DEST", "SRC1", "SRC2">>, <<"Dwreg", "Swreg", "waop">>, "direct", "ADD WORDS.", FALSE, FALSE, FALSE),
  (* 0x45 *) T("ADD", 5, 3, <<"DEST", "SRC1", "SRC2">>, <<"Dwreg", "Swreg", "waop">>, "immediate", "ADD WORDS.", FALSE, FALSE, FALSE),
  (* 0x46 *) T("ADD", 4, 3, <<"DEST", "SRC1", "SRC2">>, <<"Dwreg", "Swreg", "waop">>, "indirect", "ADD WORDS.", FALSE, FALSE, FALSE),
  (* 0x47 *) T("ADD", 5, 3, <<"DEST", "SRC1", "SRC2">>, <<"Dwreg", "Swreg", "waop">>, "indexed", "ADD WORDS.", TRUE, FALSE, FALSE),
  (* 0x48 *) T("SUB", 4, 3, <<"DEST", "SRC1", "SRC2">>, <<"Dwreg", "Swreg", "waop">>, "direct", "SUBTRACT WORDS.", FALSE, FALSE, FALSE),
  (* 0x49 *) T("SUB", 5, 3, <<"DEST", "SRC1", "SRC2">>, <<"Dwreg", "Swreg", "waop">>, "immediate", "SUBTRACT WORDS.", FALSE, FALSE, FALSE),
  (* 0x4A *) T("SUB", 4, 3, <<"DEST", "SRC1", "SRC2">>, <<"Dwreg", "Swreg", "waop">>, "indirect", "SUBTRACT WORDS.", FALSE, FALSE, FALSE),
  (* 0x4B *) T("SUB", 5, 3, <<"DEST", "SRC1", "SRC2">>, <<"Dwreg", "Swreg", "waop">>, "indexed", "SUBTRACT WORDS.", TRUE, FALSE, FALSE),
  (* 0x4C *) T("MULU", 4, 3, <<"DEST", "SRC1", "SRC2">>, <<"lreg", "wreg", "waop">>, "direct", "MULTIPLY WORDS, UNSIGNED.", FALSE, FALSE, FALSE),
  (* 0x4D *) T("MULU", 5, 3, <<"DEST", "SRC1", "SRC2">>, <<"lreg", "wreg", "waop">>, "immediate", "MULTIPLY WORDS, UNSIGNED.", FALSE, FALSE, FALSE),
  (* 0x4E *) T("MULU", 4, 3, <<"DEST", "SRC1", "SRC2">>, <<"lreg", "wreg", "waop">>, "indirect", "MULTIPLY WORDS, UNSIGNED.", FALSE, FALSE, FALSE),
  (* 0x4F *) T("MULU", 5, 3, <<"DEST", "SRC1", "SRC2">>, <<"lreg", "wreg", "waop">>, "indexed", "MULTIPLY WORDS, UNSIGNED.", TRUE, FALSE, FALSE),
  (* 0x50 *) T("ANDB", 4, 3, <<"DEST", "SRC1", "SRC2">>, <<"Dbreg", "Sbreg", "baop">>, "direct", "LOGICAL AND BYTES.", FALSE, FALSE, FALSE),
  (* 0x51 *) T("ANDB", 4, 3, <<"DEST", "SRC1", "SRC2">>, <<"Dbreg", "Sbreg", "baop">>, "immediate", "LOGICAL AND BYTES.", FALSE, FALSE, FALSE),
  (* 0x52 *) T("ANDB", 4, 3, <<"DEST", "SRC1", "SRC2">>, <<"Dbreg", "Sbreg", "baop">>, "indirect", "LOGICAL AND BYTES.", FALSE, FALSE, FALSE),
  (* 0x53 *) T("ANDB", 5, 3, <<"DEST", "SRC1", "SRC2">>, <<"Dbreg", "Sbreg", "baop">>, "indexed", "LOGICAL AND BYTES.", TRUE, FALSE, FALSE),
  (* 0x54 *) T("ADDB", 4, 3, <<"DEST", "SRC1", "SRC2">>, <<"Dbreg", "Sbreg", "baop">>, "direct", "ADD BYTES.", FALSE, FALSE, FALSE),
  (* 0x55 *) T("ADDB", 4, 3, <<"DEST", "SRC1", "SRC2">>, <<"Dbreg", "Sbreg", "baop">>, "immediate", "ADD BYTES.", FALSE, FALSE, FALSE),
  (* 0x56 *) T("ADDB", 4, 3, <<"DEST", "SRC1", "SRC2">>, <<"Dbreg", "Sbreg", "baop">>, "indirect", "ADD BYTES.", FALSE, FALSE, FALSE),
  (* 0x57 *) T("ADDB", 5, 3, <<"DEST", "SRC1", "SRC2">>, <<"Dbreg", "Sbreg", "baop">>, "indexed", "ADD BYTES.", TRUE, FALSE, FALSE),
  (* 0x58 *) T("SUBB", 4, 3, <<"DEST", "SRC1", "SRC2">>, <<"Dbreg", "Sbreg", "baop">>, "direct", "SUBTRACT BYTES.", FALSE, FALSE, FALSE),
  (* 0x59 *) T("SUBB", 4, 3, <<"DEST", "SRC1", "SRC2">>, <<"Dbreg", "Sbreg", "baop">>, "immediate", "SUBTRACT BYTES.", FALSE, FALSE, FALSE),
  (* 0x5A *) T("SUBB", 4, 3, <<"DEST", "SRC1", "SRC2">>, <<"Dbreg", "Sbreg", "baop">>, "indirect", "SUBTRACT BYTES.", FALSE, FALSE, FALSE),
  (* 0x5B *) T("SUBB", 5, 3, <<"DEST", "SRC1", "SRC2">>, <<"Dbreg", "Sbreg", "baop">>, "indexed", "SUBTRACT BYTES.", TRUE, FALSE, FALSE),
  (* 0x5C *) T("MULUB", 4, 3, <<"DEST", "SRC1", "SRC2">>, <<"wreg", "breg", "baop">>, "direct", "MULTIPLY BYTES, UNSIGNED.", FALSE, FALSE, FALSE),
  (* 0x5D *) T("MULUB", 4, 3, <<"DEST", "SRC1", "SRC2">>, <<"wreg", "breg", "baop">>, "immediate", "MULTIPLY BYTES, UNSIGNED.", FALSE, FALSE, FALSE),
  (* 0x5E *) T("MULUB", 4, 3, <<"DEST", "SRC1", "SRC2">>, <<"wreg", "breg", "baop">>, "indirect", "MULTIPLY BYTES, UNSIGNED.", FALSE, FALSE, FALSE),
  (* 0x5F *) T("MULUB", 5, 3, <<"DEST", "SRC1", "SRC2">>, <<"wreg", "breg", "baop">>, "indexed", "MULTIPLY BYTES, UNSIGNED.", TRUE, FALSE, FALSE),
  (* 0x60 *) T("AND", 3, 2, <<"DEST", "SRC">>, <<"wreg", "waop">>, "direct", "LOGICAL AND WORDS.", FALSE, FALSE, FALSE),
  (* 0x61 *) T("AND", 4, 2, <<"DEST", "SRC">>, <<"wreg", "waop">>, "immediate", "LOGICAL AND WORDS.", FALSE, FALSE, FALSE),
  (* 0x62 *) T("AND", 3, 2, <<"DEST", "SRC">>, <<"wreg", "waop">>, "indirect", "LOGICAL AND WORDS.", FALSE, FALSE, FALSE),
  (* 0x63 *) T("AND", 4, 2, <<"DEST", "SRC">>, <<"wreg", "waop">>, "indexed", "LOGICAL AND WORDS.", TRUE, FALSE, FALSE),
  (* 0x64 *) T("ADD", 3, 2, <<"DEST", "SRC">>, <<"wreg", "waop">>, "direct", "ADD WORDS.", FALSE, FALSE, FALSE),
  (* 0x65 *) T("ADD", 4, 2, <<"DEST", "SRC">>, <<"wreg", "waop">>, "immediate", "ADD WORDS.", FALSE, FALSE, FALSE),
  (* 0x66 *) T("ADD", 3, 2, <<"DEST", "SRC">>, <<"wreg", "waop">>, "indirect", "ADD WORDS.", FALSE, FALSE, FALSE),
  (* 0x67 *) T("ADD", 4, 2, <<"DEST", "SRC">>, <<"wreg", "waop">>, "indexed", "ADD WORDS.", TRUE, FALSE, FALSE),
  (* 0x68 *) T("SUB", 3, 2, <<"DEST", "SRC">>, <<"wreg", "waop">>, "direct", "SUBTRACT WORDS.", FALSE, FALSE, FALSE),
  (* 0x69 *) T("SUB", 4, 2, <<"DEST", "SRC">>, <<"wreg", "waop">>, "immediate", "SUBTRACT WORDS.", FALSE, FALSE, FALSE),
  (* 0x6A *) T("SUB", 3, 2, <<"DEST", "SRC">>, <<"wreg", "waop">>, "indirect", "SUBTRACT WORDS.", FALSE, FALSE, FALSE),
  (* 0x6B *) T("SUB", 4, 2, <<"DEST", "SRC">>, <<"wreg", "waop">>, "indexed", "SUBTRACT WORDS.", TRUE, FALSE, FALSE),
  (* 0x6C *) T("MULU", 3, 2, <<"DEST", "SRC">>, <<"lreg", "waop">>, "direct", "MULTIPLY WORDS, UNSIGNED.", FALSE, FALSE, FALSE),
  (* 0x6D *) T("MULU", 4, 2, <<"DEST", "SRC">>, <<"lreg", "waop">>, "immediate", "MULTIPLY WORDS, UNSIGNED.", FALSE, FALSE, FALSE),
  (* 0x6E *) T("MULU", 3, 2, <<"DEST", "SRC">>, <<"lreg", "waop">>, "indirect", "MULTIPLY WORDS, UNSIGNED.", FALSE, FALSE, FALSE),
  (* 0x6F *) T("MULU", 4, 2, <<"DEST", "SRC">>, <<"lreg", "waop">>, "indexed", "MULTIPLY WORDS, UNSIGNED.", TRUE, FALSE, FALSE),
  (* 0x70 *) T("ANDB", 3, 2, <<"DEST", "SRC">>, <<"breg", "baop">>, "direct", "LOGICAL AND BYTES.", FALSE, FALSE, FALSE),
  (* 0x71 *) T("ANDB", 3, 2, <<"DEST", "SRC">>, <<"breg", "baop">>, "immediate", "LOGICAL AND BYTES.", FALSE, FALSE, FALSE),
  (* 0x72 *) T("ANDB", 3, 2, <<"DEST", "SRC">>, <<"breg", "baop">>, "indirect", "LOGICAL AND BYTES.", FALSE, FALSE, FALSE),
  (* 0x73 *) T("ANDB", 4, 2, <<"DEST", "SRC">>, <<"breg", "baop">>, "indexed", "LOGICAL AND BYTES.", TRUE, FALSE, FALSE),
  (* 0x74 *) T("ADDB", 3, 2, <<"DEST", "SRC">>, <<"breg", "baop">>, "direct", "ADD BYTES.", FALSE, FALSE, FALSE),
  (* 0x75 *) T("ADDB", 3, 2, <<"DEST", "SRC">>, <<"breg", "baop">>, "immediate", "ADD BYTES.", FALSE, FALSE, FALSE),
  (* 0x76 *) T("ADDB", 3, 2, <<"DEST", "SRC">>, <<"breg", "baop">>, "indirect", "ADD BYTES.", FALSE, FALSE, FALSE),
  (* 0x77 *) T("ADDB", 4, 2, <<"DEST", "SRC">>, <<"breg", "baop">>, "indexed", "ADD BYTES.", TRUE, FALSE, FALSE),
  (* 0x78 *) T("SUBB", 3, 2, <<"DEST", "SRC">>, <<"breg", "baop">>, "direct", "SUBTRACT BYTES.", FALSE, FALSE, FALSE),
  (* 0x79 *) T("SUBB", 3, 2, <<"DEST", "SRC">>, <<"breg", "baop">>, "immediate", "SUBTRACT BYTES.", FALSE, FALSE, FALSE),
  (* 0x7A *) T("SUBB", 3, 2, <<"DEST", "SRC">>, <<"breg", "baop">>, "indirect", "SUBTRACT BYTES.", FALSE, FALSE, FALSE),
  (* 0x7B *) T("SUBB", 4, 2, <<"DEST", "SRC">>, <<"breg", "baop">>, "indexed", "SUBTRACT BYTES.", TRUE, FALSE, FALSE),
  (* 0x7C *) T("MULUB", 3, 2, <<"DEST", "SRC">>, <<"wreg", "baop">>, "direct", "MULTIPLY BYTES", FALSE, FALSE, FALSE),
  (* 0x7D *) T("MULUB", 3, 2, <<"DEST", "SRC">>, <<"wreg", "baop">>, "immediate", "MULTIPLY BYTES", FALSE, FALSE, FALSE),
  (* 0x7E *) T("MULUB", 3, 2, <<"DEST", "SRC">>, <<"wreg", "baop">>, "indirect", "MULTIPLY BYTES", FALSE, FALSE, FALSE),
  (* 0x7F *) T("MULUB", 4, 2, <<"DEST", "SRC">>, <<"wreg", "baop">>, "indexed", "MULTIPLY BYTES", TRUE, FALSE, FALSE),
  (* 0x80 *) T("OR", 3, 2, <<"DEST", "SRC">>, <<"wreg", "waop">>, "direct", "LOGICAL OR WORDS.", FALSE, FALSE, FALSE),
  (* 0x81 *) T("OR", 4, 2, <<"DEST", "SRC">>, <<"wreg", "waop">>, "immediate", "LOGICAL OR WORDS.", FALSE, FALSE, FALSE),
  (* 0x82 *) T("OR", 3, 2, <<"DEST", "SRC">>, <<"wreg", "waop">>, "indirect", "LOGICAL OR WORDS.", FALSE, FALSE, FALSE),
  (* 0x83 *) T("OR", 4, 2, <<"DEST", "SRC">>, <<"wreg", "waop">>, "indexed", "LOGICAL OR WORDS.", TRUE, FALSE, FALSE),
  (* 0x84 *) T("XOR", 3, 2, <<"DEST", "SRC">>, <<"wreg", "waop">>, "direct", "LOGICAL EXCLUSIVE-OR WORDS", FALSE, FALSE, FALSE),
  (* 0x85 *) T("XOR", 4, 2, <<"DEST", "SRC">>, <<"wreg", "waop">>, "immediate", "LOGICAL EXCLUSIVE-OR WORDS", FALSE, FALSE, FALSE),
  (* 0x86 *) T("XOR", 3, 2, <<"DEST", "SRC">>, <<"wreg", "waop">>, "indirect", "LOGICAL EXCLUSIVE-OR WORDS", FALSE, FALSE, FALSE),
  (* 0x87 *) T("XOR", 4, 2, <<"DEST", "SRC">>, <<"wreg", "waop">>, "indexed", "LOGICAL EXCLUSIVE-OR WORDS", TRUE, FALSE, FALSE),
  (* 0x88 *) T("CMP", 3, 2, <<"DEST", "SRC">>, <<"wreg", "waop">>, "direct", "COMPARE WORDS.", FALSE, FALSE, FALSE),
  (* 0x89 *) T("CMP", 4, 2, <<"DEST", "SRC">>, <<"wreg", "waop">>, "immediate", "COMPARE WORDS.", FALSE, FALSE, FALSE),
  (* 0x8A *) T("CMP", 3, 2, <<"DEST", "SRC">>, <<"wreg", "waop">>, "indirect", "COMPARE WORDS.", FALSE, FALSE, FALSE),
  (* 0x8B *) T("CMP", 4, 2, <<"DEST", "SRC">>, <<"wreg", "waop">>, "indexed", "COMPARE WORDS.", TRUE, FALSE, FALSE),
  (* 0x8C *) T("DIVU", 3, 2, <<"DEST", "SRC">>, <<"lreg", "waop">>, "direct", "DIVIDE WORDS, UNSIGNED.", FALSE, FALSE, FALSE),
  (* 0x8D *) T("DIVU", 4, 2, <<"DEST", "SRC">>, <<"lreg", "waop">>, "immediate", "DIVIDE WORDS, UNSIGNED.", FALSE, FALSE, FALSE),
  (* 0x8E *) T("DIVU", 3, 2, <<"DEST", "SRC">>, <<"lreg", "waop">>, "indirect", "DIVIDE WORDS, UNSIGNED.", FALSE, FALSE, FALSE),
  (* 0x8F *) T("DIVU", 4, 2, <<"DEST", "SRC">>, <<"lreg", "waop">>, "indexed", "DIVIDE WORDS, UNSIGNED.", TRUE, FALSE, FALSE),
  (* 0x90 *) T("ORB", 3, 2, <<"DEST", "SRC">>, <<"breg", "baop">>, "direct", "LOGICAL OR BYTES.", FALSE, FALSE, FALSE),
  (* 0x91 *) T("ORB", 3, 2, <<"DEST", "SRC">>, <<"breg", "baop">>, "immediate", "LOGICAL OR BYTES.", FALSE, FALSE, FALSE),
  (* 0x92 *) T("ORB", 3, 2, <<"DEST", "SRC">>, <<"breg", "baop">>, "indirect", "LOGICAL OR BYTES.", FALSE, FALSE, FALSE),
  (* 0x93 *) T("ORB", 4, 2, <<"DEST", "SRC">>, <<"breg", "baop">>, "indexed", "LOGICAL OR BYTES.", TRUE, FALSE, FALSE),
  (* 0x94 *) T("XORB", 3, 2, <<"DEST", "SRC">>, <<"breg", "baop">>, "direct", "LOGICAL EXCLUSIVE-OR BYTES.", FALSE, FALSE, FALSE),
  (* 0x95 *) T("XORB", 3, 2, <<"DEST", "SRC">>, <<"breg", "baop">>, "immediate", "LOGICAL EXCLUSIVE-OR BYTES.", FALSE, FALSE, FALSE),
  (* 0x96 *) T("XORB", 3, 2, <<"DEST", "SRC">>, <<"breg", "baop">>, "indirect", "LOGICAL EXCLUSIVE-OR BYTES.", FALSE, FALSE, FALSE),
  (* 0x97 *) T("XORB", 4, 2, <<"DEST", "SRC">>, <<"breg", "baop">>, "indexed", "LOGICAL EXCLUSIVE-OR BYTES.", TRUE, FALSE, FALSE),
  (* 0x98 *) T("CMPB", 3, 2, <<"DEST", "SRC">>, <<"breg", "baop">>, "direct", "COMPARE BYTES.", FALSE, FALSE, FALSE),
  (* 0x99 *) T("CMPB", 3, 2, <<"DEST", "SRC">>, <<"breg", "baop">>, "immediate", "COMPARE BYTES.", FALSE, FALSE, FALSE),
  (* 0x9A *) T("CMPB", 3, 2, <<"DEST", "SRC">>, <<"breg", "baop">>, "indirect", "COMPARE BYTES.", FALSE, FALSE, FALSE),
  (* 0x9B *) T("CMPB", 4, 2, <<"DEST", "SRC">>, <<"breg", "baop">>, "indexed", "COMPARE BYTES.", TRUE, FALSE, FALSE),
  (* 0x9C *) T("DIVUB", 3, 2, <<"DEST", "SRC">>, <<"wreg", "baop">>, "direct", "DIVIDE BYTES, UNSIGNED.", FALSE, FALSE, FALSE),
  (* 0x9D *) T("DIVUB", 3, 2, <<"DEST", "SRC">>, <<"wreg", "baop">>, "immediate", "DIVIDE BYTES, UNSIGNED.", FALSE, FALSE, FALSE),
  (* 0x9E *) T("DIVUB", 3, 2, <<"DEST", "SRC">>, <<"wreg", "baop">>, "indirect", "DIVIDE BYTES, UNSIGNED.", FALSE, FALSE, FALSE),
  (* 0x9F *) T("DIVUB", 4, 2, <<"DEST", "SRC">>, <<"wreg", "baop">>, "indexed", "DIVIDE BYTES, UNSIGNED.", TRUE, FALSE, FALSE),
  (* 0xA0 *) T("LD", 3, 2, <<"DEST", "SRC">>, <<"wreg", "waop">>, "direct", "LOAD WORD.", FALSE, FALSE, FALSE),
  (* 0xA1 *) T("LD", 4, 2, <<"DEST", "SRC">>, <<"wreg", "waop">>, "immediate", "LOAD WORD.", FALSE, FALSE, FALSE),
  (* 0xA2 *) T("LD", 3, 2, <<"DEST", "SRC">>, <<"wreg", "waop">>, "indirect", "LOAD WORD.", FALSE, FALSE, FALSE),
  (* 0xA3 *) T("LD", 4, 2, <<"DEST", "SRC">>, <<"wreg", "waop">>, "indexed", "LOAD WORD.", TRUE, FALSE, FALSE),
  (* 0xA4 *) T("ADDC", 3, 2, <<"DEST", "SRC">>, <<"wreg", "waop">>, "direct", "ADD WORDS WITH CARRY.", FALSE, FALSE, FALSE),
  (* 0xA5 *) T("ADDC", 4, 2, <<"DEST", "SRC">>, <<"wreg", "waop">>, "immediate", "ADD WORDS WITH CARRY.", FALSE, FALSE, FALSE),
  (* 0xA6 *) T("ADDC", 3, 2, <<"DEST", "SRC">>, <<"wreg", "waop">>, "indirect", "ADD WORDS WITH CARRY.", FALSE, FALSE, FALSE),
  (* 0xA7 *) T("ADDC", 4, 2, <<"DEST", "SRC">>, <<"wreg", "waop">>, "indexed", "ADD WORDS WITH CARRY.", TRUE, FALSE, FALSE),
  (* 0xA8 *) T("SUBC", 3, 2, <<"DEST", "SRC">>, <<"wreg", "waop">>, "direct", "SUBTRACT WORDS WITH BORROW.", FALSE, FALSE, FALSE),
  (* 0xA9 *) T("SUBC", 4, 2, <<"DEST", "SRC">>, <<"wreg", "waop">>, "immediate", "SUBTRACT WORDS WITH BORROW.", FALSE, FALSE, FALSE),
  (* 0xAA *) T("SUBC", 3, 2, <<"DEST", "SRC">>, <<"wreg", "waop">>, "indirect", "SUBTRACT WORDS WITH BORROW.", FALSE, FALSE, FALSE),
  (* 0xAB *) T("SUBC", 4, 2, <<"DEST", "SRC">>, <<"wreg", "waop">>, "indexed", "SUBTRACT WORDS WITH BORROW.", TRUE, FALSE, FALSE),
  (* 0xAC *) T("LDBZE", 3, 2, <<"DEST", "SRC">>, <<"wreg", "baop">>, "direct", "LOAD BYTE ZERO-EXTENDED.", FALSE, FALSE, FALSE),
  (* 0xAD *) T("LDBZE", 3, 2, <<"DEST", "SRC">>, <<"wreg", "baop">>, "immediate", "LOAD BYTE ZERO-EXTENDED.", FALSE, FALSE, FALSE),
  (* 0xAE *) T("LDBZE", 3, 2, <<"DEST", "SRC">>, <<"wreg", "baop">>, "indirect", "LOAD BYTE ZERO-EXTENDED.", FALSE, FALSE, FALSE),
  (* 0xAF *) T("LDBZE", 4, 2, <<"DEST", "SRC">>, <<"wreg", "baop">>, "indexed", "LOAD BYTE ZERO-EXTENDED.", TRUE, FALSE, FALSE),
  (* 0xB0 *) T("LDB", 3, 2, <<"DEST", "SRC">>, <<"breg", "baop">>, "direct", "LOAD BYTE.", FALSE, FALSE, FALSE),
  (* 0xB1 *) T("LDB", 3, 2, <<"DEST", "SRC">>, <<"breg", "baop">>, "immediate", "LOAD BYTE.", FALSE, FALSE, FALSE),
  (* 0xB2 *) T("LDB", 3, 2, <<"DEST", "SRC">>, <<"breg", "baop">>, "indirect", "LOAD BYTE.", FALSE, FALSE, FALSE),
  (* 0xB3 *) T("LDB", 4, 2, <<"DEST", "SRC">>, <<"breg", "baop">>, "indexed", "LOAD BYTE.", TRUE, FALSE, FALSE),
  (* 0xB4 *) T("ADDCB", 3, 2, <<"DEST", "SRC">>, <<"breg", "baop">>, "direct", "ADD BYTES WITH CARRY.", FALSE, FALSE, FALSE),
  (* 0xB5 *) T("ADDCB", 3, 2, <<"DEST", "SRC">>, <<"breg", "baop">>, "immediate", "ADD BYTES WITH CARRY.", FALSE, FALSE, FALSE),
  (* 0xB6 *) T("ADDCB", 3, 2, <<"DEST", "SRC">>, <<"breg", "baop">>, "indirect", "ADD BYTES WITH CARRY.", FALSE, FALSE, FALSE),
  (* 0xB7 *) T("ADDCB", 4, 2, <<"DEST", "SRC">>, <<"breg", "baop">>, "indexed", "ADD BYTES WITH CARRY.", TRUE, FALSE, FALSE),
  (* 0xB8 *) T("SUBCB", 3, 2, <<"DEST", "SRC">>, <<"breg", "baop">>, "direct", "SUBTRACT BYTES WITH BORROW.", FALSE, FALSE, FALSE),
  (* 0xB9 *) T("SUBCB", 3, 2, <<"DEST", "SRC">>, <<"breg", "baop">>, "immediate", "SUBTRACT BYTES WITH BORROW.", FALSE, FALSE, FALSE),
  (* 0xBA *) T("SUBCB", 3, 2, <<"DEST", "SRC">>, <<"breg", "baop">>, "indirect", "SUBTRACT BYTES WITH BORROW.", FALSE, FALSE, FALSE),
  (* 0xBB *) T("SUBCB", 4, 2, <<"DEST", "SRC">>, <<"breg", "baop">>, "indexed", "SUBTRACT BYTES WITH BORROW.", TRUE, FALSE, FALSE),
  (* 0xBC *) T("LDBSE", 3, 2, <<"DEST", "SRC">>, <<"wreg", "baop">>, "direct", "LOAD BYTE SIGN-EXTENDED.", FALSE, FALSE, FALSE),
  (* 0xBD *) T("LDBSE", 3, 2, <<"DEST", "SRC">>, <<"wreg", "baop">>, "immediate", "LOAD BYTE SIGN-EXTENDED.", FALSE, FALSE, FALSE),
  (* 0xBE *) T("LDBSE", 3, 2, <<"DEST", "SRC">>, <<"wreg", "baop">>, "indirect", "LOAD BYTE SIGN-EXTENDED.", FALSE, FALSE, FALSE),
  (* 0xBF *) T("LDBSE", 4, 2, <<"DEST", "SRC">>, <<"wreg", "baop">>, "indexed", "LOAD BYTE SIGN-EXTENDED.", TRUE, FALSE, FALSE),
  (* 0xC0 *) T("ST", 3, 2, <<"SRC", "DEST">>, <<"wreg", "waop">>, "direct", "STORE WORD.", FALSE, FALSE, FALSE),
  (* 0xC1 *) T("BMOV", 3, 2, <<"PTRS", "CNTREG">>, <<"lreg", "wreg">>, "", "BLOCK MOVE.", FALSE, FALSE, FALSE),
  (* 0xC2 *) T("ST", 3, 2, <<"SRC", "DEST">>, <<"wreg", "waop">>, "indirect", "STORE WORD.", FALSE, FALSE, FALSE),
  (* 0xC3 *) T("ST", 4, 2, <<"SRC", "DEST">>, <<"wreg", "waop">>, "indexed", "STORE WORD.", TRUE, FALSE, FALSE),
  (* 0xC4 *) T("STB", 3, 2, <<"SRC", "DEST">>, <<"breg", "baop">>, "direct", "STORE BYTE.", FALSE, FALSE, FALSE),
  (* 0xC5 *) T("CMPL", 3, 2, <<"DEST", "SRC">>, <<"Dlreg", "Slreg">>, "direct", "COMPARE LONG.", FALSE, FALSE, FALSE),
  (* 0xC6 *) T("STB", 3, 2, <<"SRC", "DEST">>, <<"breg", "baop">>, "indirect", "STORE BYTE.", FALSE, FALSE, FALSE),
  (* 0xC7 *) T("STB", 4, 2, <<"SRC", "DEST">>, <<"breg", "baop">>, "indexed", "STORE BYTE.", TRUE, FALSE, FALSE),
  (* 0xC8 *) T("PUSH", 2, 1, <<"SRC">>, <<"waop">>, "direct", "PUSH WORD.", FALSE, FALSE, FALSE),
  (* 0xC9 *) T("PUSH", 3, 1, <<"SRC">>, <<"waop">>, "immediate", "PUSH WORD.", FALSE, FALSE, FALSE),
  (* 0xCA *) T("PUSH", 2, 1, <<"SRC">>, <<"waop">>, "indirect", "PUSH WORD.", FALSE, FALSE, FALSE),
  (* 0xCB *) T("PUSH", 3, 1, <<"SRC">>, <<"waop">>, "indexed", "PUSH WORD.", TRUE, FALSE, FALSE),
  (* 0xCC *) T("POP", 2, 1, <<"DEST">>, <<"waop">>, "direct", "POP WORD.", FALSE, FALSE, FALSE),
  (* 0xCD *) T("BMOVI", 3, 2, <<"PTRS", "CNTREG">>, <<"lreg", "wreg">>, "indirect", "INTERRUPTIBLE BLOCK MOVE.", FALSE, FALSE, FALSE),
  (* 0xCE *) T("POP", 2, 1, <<"DEST">>, <<"waop">>, "indirect", "POP WORD.", FALSE, FALSE, FALSE),
  (* 0xCF *) T("POP", 3, 1, <<"DEST">>, <<"waop">>, "indexed", "POP WORD.", TRUE, FALSE, FALSE),
  (* 0xD0 *) T("JNST", 2, 1, <<"ADDR">>, <<"cadd">>, "indexed", "JUMP IF STICKY BIT FLAG IS CLEAR.", FALSE, FALSE, FALSE),
  (* 0xD1 *) T("JNH", 2, 1, <<"ADDR">>, <<"cadd">>, "indexed", "JUMP IF NOT HIGHER (UNSIGNED).", FALSE, FALSE, FALSE),
  (* 0xD2 *) T("JGT", 2, 1, <<"ADDR">>, <<"cadd">>, "indexed", "JUMP IF SIGNED GREATER THAN.", FALSE, FALSE, FALSE),
  (* 0xD3 *) T("JNC", 2, 1, <<"ADDR">>, <<"cadd">>, "indexed", "JUMP IF CARRY FLAG IS CLEAR.", FALSE, FALSE, FALSE),
  (* 0xD4 *) T("JNVT", 2, 1, <<"ADDR">>, <<"cadd">>, "indexed", "JUMP IF OVERFLOW-TRAP FLAG IS CLEAR.", FALSE, FALSE, FALSE),
  (* 0xD5 *) T("JNV", 2, 1, <<"ADDR">>, <<"cadd">>, "indexed", "JUMP IF OVERFLOW FLAG IS CLEAR.", FALSE, FALSE, FALSE),
  (* 0xD6 *) T("JGE", 2, 1, <<"ADDR">>, <<"cadd">>, "indexed", "JUMP IF SIGNED GREATER THAN OR EQUAL.", FALSE, FALSE, FALSE),
  (* 0xD7 *) T("JNE", 2, 1, <<"ADDR">>, <<"cadd">>, "indexed", "JUMP IF NOT EQUAL.", FALSE, FALSE, FALSE),
  (* 0xD8 *) T("JST", 2, 1, <<"ADDR">>, <<"cadd">>, "indexed", "JUMP IF STICKY BIT FLAG IS SET.", FALSE, FALSE, FALSE),
  (* 0xD9 *) T("JH", 2, 1, <<"ADDR">>, <<"cadd">>, "indexed", "JUMP IF HIGHER (UNSIGNED).", FALSE, FALSE, FALSE),
  (* 0xDA *) T("JLE", 2, 1, <<"ADDR">>, <<"cadd">>, "indexed", "JUMP IF SIGNED LESS THAN OR EQUAL.", FALSE, FALSE, FALSE),
  (* 0xDB *) T("JC", 2, 1, <<"ADDR">>, <<"cadd">>, "indexed", "JUMP IF CARRY FLAG IS SET.", FALSE, FALSE, FALSE),
  (* 0xDC *) T("JVT", 2, 1, <<"ADDR">>, <<"cadd">>, "indexed", "JUMP IF OVERFLOW-TRAP FLAG IS SET.", FALSE, FALSE, FALSE),
  (* 0xDD *) T("JV", 2, 1, <<"ADDR">>, <<"cadd">>, "indexed", "JUMP IF OVERFLOW FLAG IS SET.", FALSE, FALSE, FALSE),
  (* 0xDE *) T("JLT", 2, 1, <<"ADDR">>, <<"cadd">>, "indexed", "JUMP IF SIGNED LESS THAN.", FALSE, FALSE, FALSE),
  (* 0xDF *) T("JE", 2, 1, <<"ADDR">>, <<"cadd">>, "indexed", "JUMP IF EQUAL.", FALSE, FALSE, FALSE),
  (* 0xE0 *) T("DJNZ", 3, 1, <<"BREG", "ADDR">>, <<"breg", "cadd">>, "indexed", "DECREMENT AND JUMP IF NOT ZERO.", FALSE, FALSE, FALSE),
  (* 0xE1 *) T("DJNZW", 3, 1, <<"WREG", "ADDR">>, <<"wreg", "cadd">>, "indexed", "DECREMENT AND JUMP IF NOT ZERO WORD.", FALSE, FALSE, FALSE),
  (* 0xE2 *) T("TIJMP", 4, 3, <<"TBASE", "INDEX", "#MASK">>, <<"TBASE", "INDEX", "#MASK">>, "indexed", "TABLE INDIRECT JUMP.", FALSE, FALSE, FALSE),
  (* 0xE3 *) T("EBR", 2, 1, <<"ADDR">>, <<"cadd">>, "extended-indirect", "EXTENDED BRANCH INDIRECT.", FALSE, FALSE, FALSE),
  (* 0xE4 *) T("EBMOVI", 3, 2, <<"PTRS", "CNTREG">>, <<"prt2_reg", "wreg">>, "extended-indirect", "EXTENDED INTERRUPTIBLE BLOCK MOVE.", FALSE, FALSE, FALSE),
  (* 0xE5 *) T("Reserved", 1, 0, <<>>, <<>>, "", "", FALSE, FALSE, TRUE),
  (* 0xE6 *) T("EJMP", 4, 1, <<"ADDR">>, <<"cadd">>, "extended-indexed", "EXTENDED JUMP.", FALSE, FALSE, FALSE),
  (* 0xE7 *) T("LJMP", 3, 1, <<"ADDR">>, <<"cadd">>, "long-indexed", "LONG JUMP.", FALSE, FALSE, FALSE),
  (* 0xE8 *) T("ELD", 3, 2, <<"DEST", "SRC">>, <<"wreg", "treg">>, "extended-indirect", "EXTENDED LOAD WORD.", FALSE, FALSE, FALSE),
  (* 0xE9 *) T("ELD", 6, 2, <<"DEST", "SRC">>, <<"wreg", "treg">>, "extended-indexed", "EXTENDED LOAD WORD.", FALSE, FALSE, FALSE),
  (* 0xEA *) T("ELDB", 3, 2, <<"DEST", "SRC">>, <<"breg", "treg">>, "extended-indirect", "EXTENDED LOAD BYTE.", FALSE, FALSE, FALSE),
  (* 0xEB *) T("ELDB", 6, 2, <<"DEST", "SRC">>, <<"breg", "treg">>, "extended-indexed", "EXTENDED LOAD BYTE.", FALSE, FALSE, FALSE),
  (* 0xEC *) T("DPTS", 1, 0, <<>>, <<>>, "direct", "DISABLE PERIPHERAL TRANSACTION SERVER (PTS).", FALSE, FALSE, FALSE),
  (* 0xED *) T("EPTS", 1, 0, <<>>, <<>>, "direct", "ENABLE PERIPHERAL TRANSACTION SERVER (PTS).", FALSE, FALSE, FALSE),
  (* 0xEE *) T("Reserved", 1, 0, <<>>, <<>>, "", "", FALSE, FALSE, TRUE),
  (* 0xEF *) T("LCALL", 3, 1, <<"ADDR">>, <<"cadd">>, "long-indexed", "LONG CALL.", FALSE, FALSE, FALSE),
  (* 0xF0 *) T("RET", 1, 0, <<>>, <<>>, "indirect", "RETURN FROM SUBROUTINE.", FALSE, FALSE, FALSE),
  (* 0xF1 *) T("ECALL", 4, 1, <<"ADDR">>, <<"cadd">>, "extended-indexed", "EXTENDED CALL.", FALSE, FALSE, FALSE),
  (* 0xF2 *) T("PUSHF", 1, 0, <<>>, <<>>, "direct", "PUSH FLAGS.", FALSE, FALSE, FALSE),
  (* 0xF3 *) T("POPF", 1, 0, <<>>, <<>>, "direct", "POP FLAGS.", FALSE, FALSE, FALSE),
  (* 0xF4 *) T("PUSHA", 1, 0, <<>>, <<>>, "direct", "PUSH ALL.", FALSE, FALSE, FALSE),
  (* 0xF5 *) T("POPA", 1, 0, <<>>, <<>>, "direct", "POP ALL.", FALSE, FALSE, FALSE),
  (* 0xF6 *) T("IDLPD", 1, 0, <<>>, <<>>, "immediate", "IDLE/POWERDOWN.", FALSE, FALSE, FALSE),
  (* 0xF7 *) T("TRAP", 1, 0, <<>>, <<>>, "direct", "SOFTWARE TRAP.", FALSE, FALSE, FALSE),
  (* 0xF8 *) T("CLRC", 1, 0, <<>>, <<>>, "direct", "CLEAR CARRY FLAG.", FALSE, FALSE, FALSE),
  (* 0xF9 *) T("SETC", 1, 0, <<>>, <<>>, "direct", "SET CARRY FLAG.", FALSE, FALSE, FALSE),
  (* 0xFA *) T("DI", 1, 0, <<>>, <<>>, "direct", "DISABLE INTERRUPTS.", FALSE, FALSE, FALSE),
  (* 0xFB *) T("EI", 1, 0, <<>>, <<>>, "direct", "ENABLE INTERRUPTS.", FALSE, FALSE, FALSE),
  (* 0xFC *) T("CLRVT", 1, 0, <<>>, <<>>, "direct", "CLEAR OVERFLOW-TRAP FLAG.", FALSE, FALSE, FALSE),
  (* 0xFD *) T("NOP", 1, 0, <<>>, <<>>, "direct", "NO OPERATION.", FALSE, FALSE, FALSE),
  (* 0xFE *) T("(Note 2) Prefix for signed multiplication and division.", 1, 0, <<>>, <<>>, "", "", FALSE, TRUE, FALSE),
  (* 0xFF *) T("RST", 1, 0, <<>>, <<>>, "direct", "RESET SYSTEM.", FALSE, FALSE, FALSE)
  >>

signedTemplates ==
     (\H1C :> T("MYSTERY", 4, 3, <<"DEST", "SRC1", "SRC2">>, <<"lreg", "wreg", "waop">>, "indirect", "MYSTERY.", FALSE, FALSE, FALSE))
  @@ (\H4C :> T("MUL", 4, 3, <<"DEST", "SRC1", "SRC2">>, <<"lreg", "wreg", "waop">>, "direct", "MULTIPLY INTEGERS.", FALSE, FALSE, FALSE))
  @@ (\H4D :> T("MUL", 5, 3, <<"DEST", "SRC1", "SRC2">>, <<"lreg", "wreg", "waop">>, "immediate", "MULTIPLY INTEGERS.", FALSE, FALSE, FALSE))
  @@ (\H4E :> T("MUL", 4, 3, <<"DEST", "SRC1", "SRC2">>, <<"lreg", "wreg", "waop">>, "indirect", "MULTIPLY INTEGERS.", FALSE, FALSE, FALSE))
  @@ (\H4F :> T("MUL", 5, 3, <<"DEST", "SRC1", "SRC2">>, <<"lreg", "wreg", "waop">>, "indexed", "MULTIPLY INTEGERS.", TRUE, FALSE, FALSE))
  @@ (\H5C :> T("MULB", 4, 3, <<"DEST", "SRC1", "SRC2">>, <<"wreg", "breg", "baop">>, "direct", "MULTIPLY SHORT-INTEGERS.", FALSE, FALSE, FALSE))
  @@ (\H5D :> T("MULB", 4, 3, <<"DEST", "SRC1", "SRC2">>, <<"wreg", "breg", "baop">>, "immediate", "MULTIPLY SHORT-INTEGERS.", FALSE, FALSE, FALSE))
  @@ (\H5E :> T("MULB", 4, 3, <<"DEST", "SRC1", "SRC2">>, <<"wreg", "breg", "baop">>, "indirect", "MULTIPLY SHORT-INTEGERS.", FALSE, FALSE, FALSE))
  @@ (\H5F :> T("MULB", 5, 3, <<"DEST", "SRC1", "SRC2">>, <<"wreg", "breg", "baop">>, "indexed", "MULTIPLY SHORT-INTEGERS.", TRUE, FALSE, FALSE))
  @@ (\H6C :> T("MUL", 3, 2, <<"DEST", "SRC">>, <<"lreg", "waop">>, "direct", "MULTIPLY INTEGERS.", FALSE, FALSE, FALSE))
  @@ (\H6D :> T("MUL", 4, 2, <<"DEST", "SRC">>, <<"lreg", "waop">>, "immediate", "MULTIPLY INTEGERS.", FALSE, FALSE, FALSE))
  @@ (\H6E :> T("MUL", 3, 2, <<"DEST", "SRC">>, <<"lreg", "waop">>, "indirect", "MULTIPLY INTEGERS.", FALSE, FALSE, FALSE))
  @@ (\H6F :> T("MUL", 4, 2, <<"DEST", "SRC">>, <<"lreg", "waop">>, "indexed", "MULTIPLY INTEGERS.", TRUE, FALSE, FALSE))
  @@ (\H7C :> T("MULB", 3, 2, <<"DEST", "SRC">>, <<"wreg", "baop">>, "direct", "MULTIPLY SHORT-INTEGERS.", FALSE, FALSE, FALSE))
  @@ (\H7D :> T("MULB", 3, 2, <<"DEST", "SRC">>, <<"wreg", "baop">>, "immediate", "MULTIPLY SHORT-INTEGERS.", FALSE, FALSE, FALSE))
  @@ (\H7E :> T("MULB", 3, 2, <<"DEST", "SRC">>, <<"wreg", "baop">>, "indirect", "MULTIPLY SHORT-INTEGERS.", FALSE, FALSE, FALSE))
  @@ (\H7F :> T("MULB", 4, 2, <<"DEST", "SRC">>, <<"wreg", "baop">>, "indexed", "MULTIPLY SHORT-INTEGERS.", TRUE, FALSE, FALSE))
  @@ (\H8C :> T("DIV", 3, 2, <<"DEST", "SRC">>, <<"lreg", "waop">>, "direct", "DIVIDE INTEGERS.", FALSE, FALSE, FALSE))
  @@ (\H8D :> T("DIV", 4, 2, <<"DEST", "SRC">>, <<"lreg", "waop">>, "immediate", "DIVIDE INTEGERS.", FALSE, FALSE, FALSE))
  @@ (\H8E :> T("DIV", 3, 2, <<"DEST", "SRC">>, <<"lreg", "waop">>, "indirect", "DIVIDE INTEGERS.", FALSE, FALSE, FALSE))
  @@ (\H8F :> T("DIV", 4, 2, <<"DEST", "SRC">>, <<"lreg", "waop">>, "indexed", "DIVIDE INTEGERS.", TRUE, FALSE, FALSE))
  @@ (\H9C :> T("DIVB", 3, 2, <<"DEST", "SRC">>, <<"wreg", "baop">>, "direct", "DIVIDE SHORT-INTEGERS.", FALSE, FALSE, FALSE))
  @@ (\H9D :> T("DIVB", 3, 2, <<"DEST", "SRC">>, <<"wreg", "baop">>, "immediate", "DIVIDE SHORT-INTEGERS.", FALSE, FALSE, FALSE))
  @@ (\H9E :> T("DIVB", 3, 2, <<"DEST", "SRC">>, <<"wreg", "baop">>, "indirect", "DIVIDE SHORT-INTEGERS.", FALSE, FALSE, FALSE))
  @@ (\H9F :> T("DIVB", 4, 2, <<"DEST", "SRC">>, <<"wreg", "baop">>, "indexed", "DIVIDE SHORT-INTEGERS.", TRUE, FALSE, FALSE))

\* initial value of the package variable unsignedInstructions
unsignedInstructionsInit == [op \in 0..255 |-> unsignedTemplates[op + 1]]

\* initial value of the package variable signedInstructions
signedInstructionsInit == signedTemplates

\* regName(format, value): the register-name service formats a register or
\* address; here it degenerates to plain numeric formatting and hands the
\* format back unchanged
regName(str, val) == str

(***************************************************************************)
(* State.                                                                  *)
(***************************************************************************)
VARIABLES
  unsignedInstructions,  \* package variable: opcode byte -> template
  signedInstructions,    \* package variable: opcode byte after 0xFE -> template
  VarObjs,               \* package variable: operand name -> Variable
  image,                 \* the bytes being disassembled
  base,                  \* address of image[0]
  pos,                   \* offset of the next instruction in image
  pc,                    \* position of the caller of Parse
  ret,                   \* what the last Parse call returned
  first,                 \* what the first Parse call at offset 0 returned
  rec,                   \* an Instruction driven through XRef, Call and Jump
  calls,                 \* the recorder calls made on rec so far
  data,                  \* the two bytes handed to getOffset
  offset                 \* what getOffset returned for data

vars == <<unsignedInstructions, signedInstructions, VarObjs, image, base, pos, pc,
          ret, first, rec, calls, data, offset>>

(***************************************************************************)
(* Control-flow recorder.                                                  *)
(***************************************************************************)
XRef_NoThreshold(instr, s, v) ==
  LET existing == instr.XRefs
  IN  IF \E k \in 1..Len(MapGet(existing, v)) : MapGet(existing, v)[k].XRefFrom = instr.Address
      THEN instr
      ELSE [instr EXCEPT !.XRefs =
              MapPut(existing, v,
                     Append(MapGet(existing, v),
                            [String |-> Sprintf(s, <<v>>), Mnemonic |-> instr.Mnemonic,
                             XRefFrom |-> instr.Address, XRefTo |-> v]))]

XRef_NoDedup(instr, s, v) ==
  IF v > 2
  THEN [instr EXCEPT !.XRefs =
          MapPut(instr.XRefs, v,
                 Append(MapGet(instr.XRefs, v),
                        [String |-> Sprintf(s, <<v>>), Mnemonic |-> instr.Mnemonic,
                         XRefFrom |-> instr.Address, XRefTo |-> v]))]
  ELSE instr

\* func (instr *Instruction) XRef(s string, v int).  A nil XRefs map and an
\* empty one behave alike: the loop over the records of key v finds nothing.
XRef(instr, s, v) ==
  IF v > 2
  THEN LET existing == instr.XRefs
       IN  IF \E k \in 1..Len(MapGet(existing, v)) : MapGet(existing, v)[k].XRefFrom = instr.Address
           THEN instr
           ELSE [instr EXCEPT !.XRefs =
                   MapPut(existing, v,
                          Append(MapGet(existing, v),
                                 [String |-> Sprintf(s, <<v>>), Mnemonic |-> instr.Mnemonic,
                                  XRefFrom |-> instr.Address, XRefTo |-> v]))]
  ELSE instr

Call_Filtered(instr, s, v) ==
  IF v > 2 /\ ~(\E k \in 1..Len(MapGet(instr.Calls, v)) :
                  MapGet(instr.Calls, v)[k].CallFrom = instr.Address)
  THEN [instr EXCEPT !.Calls =
          MapPut(instr.Calls, v,
                 Append(MapGet(instr.Calls, v),
                        [String |-> Sprintf(s, <<v>>), Mnemonic |-> instr.Mnemonic,
                         CallFrom |-> instr.Address, CallTo |-> v]))]
  ELSE instr

\* func (instr *Instruction) Call(s string, v int)
Call(instr, s, v) ==
  LET existing == instr.Calls
  IN  [instr EXCEPT !.Calls =
         MapPut(existing, v,
                Append(MapGet(existing, v),
                       [String |-> Sprintf(s, <<v>>), Mnemonic |-> instr.Mnemonic,
                        CallFrom |-> instr.Address, CallTo |-> v]))]

\* func (instr *Instruction) Jump(s string, v int)
Jump(instr, s, v) ==
  LET existing == instr.Jumps
  IN  [instr EXCEPT !.Jumps =
         MapPut(existing, v,
                Append(MapGet(existing, v),
                       [String |-> Sprintf(s, <<v>>), Mnemonic |-> instr.Mnemonic,
                        JumpFrom |-> instr.Address, JumpTo |-> v]))]

(***************************************************************************)
(* Offset calculator.                                                      *)
(***************************************************************************)
getOffset_Unsigned(d) == (LowThree(d[1]) * 256) + d[2]

\* func getOffset(data []byte) int.  b1 is a byte; int16(b1) << 8 is a
\* 16-bit shift, so the sum is reduced to 16 bits and read as signed.
getOffset(d) ==
  LET b1  == d[1]
      b2  == d[2]
      b1m == LowThree(b1)
      b1x == IF Bit2Set(b1m) THEN 252 + (b1m % 4) ELSE b1m
  IN  AsInt16(((b1x * 256) % 65536) + b2)

(***************************************************************************)
(* Operand resolvers.  RawOps[k] of the source is instr.RawOps[k + 1].     *)
(***************************************************************************)
\* VarObjs[name]; a missing key reads as the zero Variable
VarObj(name) == IF name \in DOMAIN VarObjs THEN VarObjs[name] ELSE ZeroVariable

doSJMP_FromStart(instr) ==
  LET off  == getOffset(<<instr.Op, instr.RawOps[1]>>)
      str  == "0x%X"
      val  == instr.Address + off
      i1   == Jump(instr, str, val)
      cadd == [VarObj("cadd") EXCEPT !.Value = Sprintf("0x%X", <<val>>),
                                     !.Type = instr.VarTypes[1]]
  IN  [i1 EXCEPT !.Vars = MapPut(EmptyMap, "cadd", cadd), !.Checked = TRUE]

\* func (instr *Instruction) doSJMP()
doSJMP(instr) ==
  LET off  == getOffset(<<instr.Op, instr.RawOps[1]>>)
      str  == "0x%X"
      val  == (instr.Address + instr.ByteLength) + off
      i1   == Jump(instr, str, val)
      cadd == [VarObj("cadd") EXCEPT !.Value = Sprintf("0x%X", <<val>>),
                                     !.Type = instr.VarTypes[1]]
  IN  [i1 EXCEPT !.Vars = MapPut(EmptyMap, "cadd", cadd), !.Checked = TRUE]

\* func (instr *Instruction) doSCALL()
doSCALL(instr) ==
  LET off  == getOffset(<<instr.Op, instr.RawOps[1]>>)
      str  == "0x%X"
      val  == (instr.Address + instr.ByteLength) + off
      i1   == Call(instr, str, val)
      cadd == [VarObj("cadd") EXCEPT !.Value = Sprintf(str, <<val>>),
                                     !.Type = instr.VarTypes[1]]
  IN  [i1 EXCEPT !.Vars = MapPut(EmptyMap, "cadd", cadd), !.Checked = TRUE]

\* func (instr *Instruction) doJBC()
doJBC(instr) ==
  LET off   == instr.RawOps[2]
      val   == instr.RawOps[1]
      str   == regName("R_%X", val)
      i1    == XRef(instr, str, val)
      breg  == [VarObj("breg") EXCEPT !.Value = Sprintf(str, <<val>>),
                                      !.Type = instr.VarTypes[1]]
      bitno == [VarObj("bitno") EXCEPT !.Value = Sprintf("%d", <<LowThree(instr.Op)>>),
                                       !.Type = instr.VarTypes[2]]
      val2  == instr.Address + instr.ByteLength + off
      str2  == regName("0x%X", val2)
      i2    == Jump(i1, str2, val2)
      cadd  == [VarObj("cadd") EXCEPT !.Value = Sprintf(str2, <<val2>>),
                                      !.Type = instr.VarTypes[3]]
  IN  [i2 EXCEPT !.Vars = MapPut(MapPut(MapPut(EmptyMap, "breg", breg), "bitno", bitno),
                                 "cadd", cadd),
                 !.Checked = TRUE]

\* func (instr *Instruction) doJBS()
doJBS(instr) ==
  LET off   == instr.RawOps[2]
      val   == instr.RawOps[1]
      str   == regName("R_%X", val)
      i1    == XRef(instr, str, val)
      breg  == [VarObj("breg") EXCEPT !.Value = Sprintf(str, <<val>>),
                                      !.Type = instr.VarTypes[1]]
      bitno == [VarObj("bitno") EXCEPT !.Value = Sprintf("%d", <<LowThree(instr.Op)>>),
                                       !.Type = instr.VarTypes[2]]
      val2  == instr.Address + instr.ByteLength + off
      str2  == regName("0x%X", val2)
      i2    == Jump(i1, str2, val2)
      cadd  == [VarObj("cadd") EXCEPT !.Value = Sprintf(str2, <<val2>>),
                                      !.Type = instr.VarTypes[3]]
  IN  [i2 EXCEPT !.Vars = MapPut(MapPut(MapPut(EmptyMap, "breg", breg), "bitno", bitno),
                                 "cadd", cadd),
                 !.Checked = TRUE]

\* func (instr *Instruction) doCONDJMP()
doCONDJMP(instr) ==
  LET off  == instr.RawOps[1]
      str  == "0x%X"
      val  == instr.Address + instr.ByteLength + off
      i1   == Jump(instr, str, val)
      cadd == [VarObj("cadd") EXCEPT !.Value = Sprintf(str, <<val>>),
                                     !.Type = instr.VarTypes[1]]
  IN  [i1 EXCEPT !.Vars = MapPut(EmptyMap, "cadd", cadd), !.Checked = TRUE]

\* int(b3)<<16 | int(b2)<<8 | int(b1)
Word24(b1, b2, b3) == (b3 * 65536) + (b2 * 256) + b1

\* int(b2)<<8 | int(b1)
Word16(b1, b2) == (b2 * 256) + b1

Mask21_Unmasked(v) == v

\* v & 0x1FFFFF of an int in two's complement
Mask21(v) == v % 2097152

\* func (instr *Instruction) doF0()
doF0(instr) ==
  LET off  == Word24(instr.RawOps[1], instr.RawOps[2], instr.RawOps[3])
      val  == Mask21(instr.Address + instr.ByteLength + off)
      str  == "0x%X"
      i1   == IF instr.Mnemonic = "ECALL" THEN Call(instr, str, val) ELSE XRef(instr, str, val)
      cadd == [VarObj("cadd") EXCEPT !.Value = Sprintf(str, <<val>>),
                                     !.Type = instr.VarTypes[1]]
  IN  [i1 EXCEPT !.Vars = MapPut(EmptyMap, "cadd", cadd), !.Checked = TRUE]

\* instr.RawOps[k], k counted from 0 as in the source
Ops(instr, k) == instr.RawOps[k + 1]

\* for i, varStr := range instr.VarStrings { body }, on the pair of the
\* instruction and the local map vars; i counts from 1 here
RECURSIVE Loop(_, _, _, _)
Loop(Body(_, _), st, i, n) == IF i > n THEN st ELSE Loop(Body, Body(st, i), i + 1, n)

ForEachVar(Body(_, _), instr) ==
  Loop(Body, [instr |-> instr, vs |-> EmptyMap], 1, Len(instr.VarStrings))

\* the value of b in the i-th pass of a loop that starts at
\* b := len(instr.RawOps) - 1 and ends each pass with b--
BackIndex(instr, i) == Len(instr.RawOps) - i

Resolved_FirstType(st, instr, i, name, value) ==
  [instr |-> instr,
   vs    |-> MapPut(st.vs, name, [VarObj(name) EXCEPT !.Value = value,
                                                      !.Type = instr.VarTypes[1]])]

\* vo := VarObjs[name]; vo.Value = value; vo.Type = instr.VarTypes[i]; vars[name] = vo
Resolved(st, instr, i, name, value) ==
  [instr |-> instr,
   vs    |-> MapPut(st.vs, name, [VarObj(name) EXCEPT !.Value = value,
                                                      !.Type = instr.VarTypes[i]])]

\* doE0, case 0xE0, 0xE1 (DJNZ, DJNZW)
doE0_DJNZ(instr) ==
  LET off  == Ops(instr, 1)
      val  == Ops(instr, 0)
      str  == regName("R_%X", val)
      i1   == XRef(instr, str, val)
      breg == [VarObj("breg") EXCEPT !.Value = Sprintf(str, <<val>>), !.Type = instr.VarTypes[1]]
      val2 == instr.Address + instr.ByteLength + off
      str2 == "0x%X"
      i2   == Jump(i1, str2, val2)
      cadd == [VarObj("cadd") EXCEPT !.Value = Sprintf(str2, <<val2>>), !.Type = instr.VarTypes[2]]
  IN  [i2 EXCEPT !.Vars = MapPut(MapPut(EmptyMap, "breg", breg), "cadd", cadd),
                 !.Checked = TRUE]

\* doE0, case 0xEA, 0xEB, 0xE8, 0xE9 (ELD, ELDB), "extended-indexed"
doE0_ExtIndexed(instr) ==
  LET off    == Word24(Ops(instr, 1), Ops(instr, 2), Ops(instr, 3))
      offStr == regName("0x%06X", off)
      i1     == XRef(instr, offStr, off)
      val    == Ops(instr, 0)
      str    == regName("[R_%02X", val)
      i2     == XRef(i1, str, val)
      treg   == [VarObj("treg") EXCEPT !.Value = Sprintf(offStr \o str \o "]", <<off, val>>),
                                       !.Type = instr.VarTypes[2]]
      val2   == Ops(instr, 4)
      str2   == regName("R_%02X", val2)
      i3     == XRef(i2, str2, val2)
      reg    == [VarObj(instr.VarStrings[1]) EXCEPT !.Value = Sprintf(str2, <<val2>>),
                                                    !.Type = instr.VarTypes[1]]
  IN  [i3 EXCEPT !.Vars = MapPut(MapPut(EmptyMap, "treg", treg), instr.VarStrings[1], reg),
                 !.Checked = TRUE]

\* doE0, case 0xEA, 0xEB, 0xE8, 0xE9 (ELD, ELDB), "extended-indirect"
doE0_ExtIndirect(instr) ==
  LET val  == Ops(instr, 0)
      str  == regName("[R_%02X", val)
      i1   == XRef(instr, str, val)
      treg == [VarObj("treg") EXCEPT !.Value = Sprintf(str \o "]", <<val>>),
                                     !.Type = instr.VarTypes[2]]
      val2 == Ops(instr, 1)
      str2 == regName("R_%02X", val2)
      i2   == XRef(i1, str2, val2)
      reg  == [VarObj(instr.VarStrings[1]) EXCEPT !.Value = Sprintf(str2, <<val2>>),
                                                  !.Type = instr.VarTypes[1]]
  IN  [i2 EXCEPT !.Vars = MapPut(MapPut(EmptyMap, "treg", treg), instr.VarStrings[1], reg),
                 !.Checked = TRUE]

\* doE0, case 0xE6 (EJMP)
doE0_EJMP(instr) ==
  LET off  == Word24(Ops(instr, 0), Ops(instr, 1), Ops(instr, 2))
      val  == Mask21(instr.Address + instr.ByteLength + off)
      str  == regName("0x%X", val)
      i1   == Jump(instr, str, val)
      cadd == [VarObj("cadd") EXCEPT !.Value = Sprintf(str, <<val>>), !.Type = instr.VarTypes[1]]
  IN  [i1 EXCEPT !.Vars = MapPut(EmptyMap, "cadd", cadd), !.Checked = TRUE]

doE0_BR_NotRetagged(instr) ==
  LET val  == ClearBit0(Ops(instr, 0))
      str  == regName("[R_%02X]", val)
      i1   == Jump(instr, str, val)
      i2   == XRef(i1, str, val)
      vo   == [VarObj(instr.VarStrings[1]) EXCEPT !.Value = Sprintf(str, <<val>>),
                                                  !.Type = instr.VarTypes[1]]
  IN  [i2 EXCEPT !.Vars = MapPut(EmptyMap, instr.VarStrings[1], vo), !.Checked = TRUE]

\* doE0, case 0xE3 (BR / EBR)
doE0_BR(instr) ==
  LET even == Bit0(Ops(instr, 0)) = 0
      val  == IF even THEN Ops(instr, 0) ELSE ClearBit0(Ops(instr, 0))
      i0   == IF even
              THEN [instr EXCEPT !.Description = "BRANCH INDIRECT.", !.Mnemonic = "BR",
                                 !.AddressingMode = "indirect", !.VarStrings = <<"wreg">>]
              ELSE instr
      str  == regName("[R_%02X]", val)
      i1   == Jump(i0, str, val)
      i2   == XRef(i1, str, val)
      vo   == [VarObj(i0.VarStrings[1]) EXCEPT !.Value = Sprintf(str, <<val>>),
                                               !.Type = i0.VarTypes[1]]
  IN  [i2 EXCEPT !.Vars = MapPut(EmptyMap, i0.VarStrings[1], vo), !.Checked = TRUE]

\* doE0, case 0xE7, 0xEF (LJMP, LCALL)
doE0_LJMP(instr) ==
  LET off  == Word16(Ops(instr, 0), Ops(instr, 1))
      val  == instr.Address + instr.ByteLength + off
      str  == regName("0x%X", val)
      i1   == IF instr.Mnemonic = "LCALL" THEN Call(instr, str, val) ELSE Jump(instr, str, val)
      cadd == [VarObj("cadd") EXCEPT !.Value = Sprintf(str, <<val>>), !.Type = instr.VarTypes[1]]
  IN  [i1 EXCEPT !.Vars = MapPut(EmptyMap, "cadd", cadd), !.Checked = TRUE]

\* func (instr *Instruction) doE0().  An opcode or an addressing mode without
\* a case leaves the fresh, empty vars map in Vars and Checked as it was.
doE0(instr) ==
  IF instr.Op \in {224, 225} THEN doE0_DJNZ(instr)
  ELSE IF instr.Op \in {234, 235, 232, 233}
       THEN IF instr.AddressingMode = "extended-indexed" THEN doE0_ExtIndexed(instr)
            ELSE IF instr.AddressingMode = "extended-indirect" THEN doE0_ExtIndirect(instr)
            ELSE [instr EXCEPT !.Vars = EmptyMap]
  ELSE IF instr.Op = 230 THEN doE0_EJMP(instr)
  ELSE IF instr.Op = 227 THEN doE0_BR(instr)
  ELSE IF instr.Op \in {231, 239} THEN doE0_LJMP(instr)
  ELSE [instr EXCEPT !.Vars = EmptyMap]

\* doC0, BMOV / CMPL / all other direct: one pass of the loop
doC0_DirectBody(st, i) ==
  LET instr  == st.instr
      varStr == instr.VarStrings[i]
      val    == Ops(instr, BackIndex(instr, i))
      str    == regName("R_%02X", val)
      i1     == XRef(instr, str, val)
  IN  Resolved(st, [i1 EXCEPT !.Checked = TRUE], i, varStr, Sprintf(str, <<val>>))

\* doC0, case "immediate": one pass of the loop
doC0_ImmediateBody(st, i) ==
  LET instr  == st.instr
      varStr == instr.VarStrings[i]
      val    == Word16(Ops(instr, 0), Ops(instr, 1))
      str    == regName("#%04X", val)
      i1     == XRef(instr, str, val)
  IN  Resolved(st, i1, i, varStr, Sprintf(str, <<val>>))

\* doC0, case "indirect", "indirect+": one pass of the loop
doC0_IndirectBody(st, i) ==
  LET instr  == st.instr
      varStr == instr.VarStrings[i]
      b      == BackIndex(instr, i)
      val    == ClearBit0(Ops(instr, b))
      str0   == IF b = 0
                THEN IF instr.AutoIncrement THEN "[R_%02X]" \o "+" ELSE "[R_%02X]"
                ELSE "R_%02X"
      str    == regName(str0, val)
  IN  Resolved(st, instr, i, varStr, Sprintf(str, <<val>>))

\* doC0, case "indexed", "short-indexed": one pass of the loop
doC0_ShortIndexedBody(st, i) ==
  LET instr  == st.instr
      varStr == instr.VarStrings[i]
      b      == BackIndex(instr, i)
      val    == Ops(instr, b)
      str    == regName("R_%02X", val)
      i1     == XRef(instr, str, val)
      off    == Ops(instr, b)
      offStr == regName("0x%02X", off)
      i2     == XRef(i1, offStr, off)
      val2   == ClearBit0(Ops(instr, b - 1))
      str2   == Sprintf(offStr \o "[R_%02X" \o "]", <<off, val2>>)
  IN  IF i = instr.VarCount
      THEN Resolved(st, i2, i, varStr, regName(str2, val2))
      ELSE Resolved(st, i1, i, varStr, Sprintf(str, <<val>>))

\* doC0, case "long-indexed": one pass of the loop
doC0_LongIndexedBody(st, i) ==
  LET instr  == st.instr
      varStr == instr.VarStrings[i]
      b      == BackIndex(instr, i)
      val    == Ops(instr, b)
      off    == Word16(Ops(instr, b - 1), Ops(instr, b))
      offStr == regName("0x%04X", off)
      i1     == XRef(instr, offStr, off)
      val2   == ClearBit0(Ops(instr, b - 2))
      str2   == regName("[R_%02X", val2)
      i2     == XRef(i1, str2, val2)
      str    == regName("R_%02X", val)
  IN  IF i = instr.VarCount
      THEN Resolved(st, i2, i, varStr, Sprintf(offStr \o str2 \o "]", <<off, val2>>))
      ELSE Resolved(st, XRef(instr, str, val), i, varStr, Sprintf(str, <<val>>))

\* instr.Vars = vars at the end of a resolver
WithVars(st) == [st.instr EXCEPT !.Vars = st.vs]

\* func (instr *Instruction) doC0()
doC0(instr) ==
  LET i0 == [instr EXCEPT !.Checked = TRUE]
  IN  IF instr.Op = 193 \/ instr.Op = 197 \/ instr.AddressingMode = "direct"
      THEN WithVars(ForEachVar(doC0_DirectBody, i0))
      ELSE IF instr.AddressingMode = "immediate"
           THEN WithVars(ForEachVar(doC0_ImmediateBody, i0))
      ELSE IF instr.AddressingMode \in {"indirect", "indirect+"}
           THEN WithVars(ForEachVar(doC0_IndirectBody, i0))
      ELSE IF instr.AddressingMode \in {"indexed", "short-indexed"}
           THEN WithVars(ForEachVar(doC0_ShortIndexedBody, i0))
      ELSE IF instr.AddressingMode = "long-indexed"
           THEN WithVars(ForEachVar(doC0_LongIndexedBody, i0))
      ELSE [i0 EXCEPT !.Vars = EmptyMap]

\* do00, opcodes 0x1F and 0x1D, case "extended-indexed"
do00_ExtIndexed(instr) ==
  LET off    == Word24(Ops(instr, 1), Ops(instr, 2), Ops(instr, 3))
      offStr == regName("0x%06X", off)
      i1     == XRef(instr, offStr, off)
      val    == Ops(instr, 0)
      str    == regName("[R_%02X", val)
      i2     == XRef(i1, str, val)
      treg   == [VarObj("treg") EXCEPT !.Value = Sprintf(offStr \o str \o "]", <<off, val>>),
                                       !.Type = instr.VarTypes[2]]
      val2   == Ops(instr, 4)
      str2   == regName("R_%02X", val2)
      i3     == XRef(i2, str2, val2)
      reg    == [VarObj(instr.VarStrings[1]) EXCEPT !.Value = Sprintf(str2, <<val2>>),
                                                    !.Type = instr.VarTypes[1]]
  IN  [i3 EXCEPT !.Vars = MapPut(MapPut(EmptyMap, "treg", treg), instr.VarStrings[1], reg),
                 !.Checked = TRUE]

\* do00, opcodes 0x1F and 0x1D, case "extended-indirect"
do00_ExtIndirect(instr) ==
  LET val  == Ops(instr, 0)
      str  == regName("[R_%02X", val)
      i1   == XRef(instr, str, val)
      treg == [VarObj("treg") EXCEPT !.Value = Sprintf(str \o "]", <<val>>),
                                     !.Type = instr.VarTypes[2]]
      val2 == Ops(instr, 1)
      str2 == regName("R_%02X", val2)
      i2   == XRef(i1, str2, val2)
      reg  == [VarObj(instr.VarStrings[1]) EXCEPT !.Value = Sprintf(str2, <<val2>>),
                                                  !.Type = instr.VarTypes[1]]
  IN  [i2 EXCEPT !.Vars = MapPut(MapPut(EmptyMap, "treg", treg), instr.VarStrings[1], reg),
                 !.Checked = TRUE]

do00_WalkBody_AlwaysRegister(st, i) ==
  LET instr  == st.instr
      varStr == instr.VarStrings[i]
      b      == BackIndex(instr, i)
      val    == Ops(instr, b)
      str    == regName("R_%02X", val)
      i1     == XRef(instr, str, val)
  IN  Resolved(st, i1, i, varStr, Sprintf(str, <<val>>))

\* do00, every other opcode: one pass of the loop
do00_WalkBody(st, i) ==
  LET instr  == st.instr
      varStr == instr.VarStrings[i]
      b      == BackIndex(instr, i)
      val    == Ops(instr, b)
      str    == regName("R_%02X", val)
      i1     == XRef(instr, str, val)
      str2   == IF Bit3Set(instr.Op) /\ b = 0 /\ instr.Op # 15 /\ Ops(instr, 0) < 16
                THEN "#%02X" ELSE str
  IN  Resolved(st, i1, i, varStr, Sprintf(str2, <<val>>))

\* func (instr *Instruction) do00().  For 0x1F and 0x1D an addressing mode
\* without a case leaves the instruction as it is.
do00(instr) ==
  IF instr.Op = 31 \/ instr.Op = 29
  THEN IF instr.AddressingMode = "extended-indexed" THEN do00_ExtIndexed(instr)
       ELSE IF instr.AddressingMode = "extended-indirect" THEN do00_ExtIndirect(instr)
       ELSE instr
  ELSE [WithVars(ForEachVar(do00_WalkBody, instr)) EXCEPT !.Checked = TRUE]

\* doMIDDLE, case "direct": one pass of the loop
doMIDDLE_DirectBody(st, i) ==
  LET instr  == st.instr
      varStr == instr.VarStrings[i]
      val    == Ops(instr, BackIndex(instr, i))
      str    == regName("R_%02X", val)
      i1     == XRef(instr, str, val)
  IN  Resolved(st, i1, i, varStr, Sprintf(str, <<val>>))

\* doMIDDLE, case "immediate", byte const: one pass of the loop
doMIDDLE_ImmByteBody(st, i) ==
  LET instr  == st.instr
      varStr == instr.VarStrings[i]
      b      == BackIndex(instr, i)
      val    == Ops(instr, b)
      str    == regName("R_%02X", val)
  IN  IF b = 0
      THEN Resolved(st, instr, i, varStr, Sprintf("#%02X", <<val>>))
      ELSE Resolved(st, XRef(instr, str, val), i, varStr, Sprintf(str, <<val>>))

\* doMIDDLE, case "immediate", word constant: one pass of the loop
doMIDDLE_ImmWordBody(st, i) ==
  LET instr  == st.instr
      varStr == instr.VarStrings[i]
      b      == BackIndex(instr, i)
      val    == Ops(instr, b)
      str    == regName("R_%02X", val)
  IN  IF b = 1
      THEN Resolved(st, instr, i, varStr,
                    Sprintf("#%04X", <<Word16(Ops(instr, 0), Ops(instr, 1))>>))
      ELSE Resolved(st, XRef(instr, str, val), i, varStr, Sprintf(str, <<val>>))

\* doMIDDLE, case "indirect", "indirect+": one pass of the loop
doMIDDLE_IndirectBody(st, i) ==
  LET instr  == st.instr
      varStr == instr.VarStrings[i]
      b      == BackIndex(instr, i)
      val    == ClearBit0(Ops(instr, b))
      str    == IF b = 0
                THEN regName(IF instr.AutoIncrement THEN "[R_%02X" \o "+" ELSE "[R_%02X", val)
                       \o "]"
                ELSE regName("R_%02X", val)
      i1     == XRef(instr, str, val)
  IN  Resolved(st, i1, i, varStr, Sprintf(str, <<val>>))

\* doMIDDLE, case "indexed", "short-indexed": one pass of the loop
doMIDDLE_ShortIndexedBody(st, i) ==
  LET instr  == st.instr
      varStr == instr.VarStrings[i]
      b      == BackIndex(instr, i)
      val    == Ops(instr, b)
      str    == regName("R_%02X", val)
      i1     == XRef(instr, str, val)
      off    == Ops(instr, b)
      offStr == regName("0x%02X", off)
      i2     == XRef(i1, offStr, off)
      val2   == ClearBit0(Ops(instr, b - 1))
      str2   == regName("[R_%02X", val2)
      i3     == XRef(i2, str2, val2)
  IN  IF i = instr.VarCount
      THEN Resolved(st, i3, i, varStr, Sprintf(offStr \o str2 \o "]", <<off, val2>>))
      ELSE Resolved(st, i1, i, varStr, Sprintf(str, <<val>>))

\* doMIDDLE, case "long-indexed": one pass of the loop
doMIDDLE_LongIndexedBody(st, i) ==
  LET instr  == st.instr
      varStr == instr.VarStrings[i]
      b      == BackIndex(instr, i)
      val    == Ops(instr, b)
      off    == Word16(Ops(instr, b - 1), Ops(instr, b))
      offStr == regName("0x%04X", off)
      i1     == XRef(instr, offStr, off)
      val2   == ClearBit0(Ops(instr, b - 2))
      str2   == regName("[R_%02X", val2)
      i2     == XRef(i1, str2, val2)
      str    == regName("R_%02X", val)
  IN  IF i = instr.VarCount
      THEN Resolved(st, i2, i, varStr, Sprintf(offStr \o str2 \o "]", <<off, val2>>))
      ELSE Resolved(st, XRef(instr, str, val), i, varStr, Sprintf(str, <<val>>))

\* func (instr *Instruction) doMIDDLE().  An addressing mode without a case
\* leaves the fresh, empty vars map in Vars and Checked as it was.
doMIDDLE(instr) ==
  IF instr.AddressingMode = "direct"
  THEN [WithVars(ForEachVar(doMIDDLE_DirectBody, instr)) EXCEPT !.Checked = TRUE]
  ELSE IF instr.AddressingMode = "immediate"
       THEN IF Bit4Set(instr.Op)
            THEN [WithVars(ForEachVar(doMIDDLE_ImmByteBody, instr)) EXCEPT !.Checked = TRUE]
            ELSE [WithVars(ForEachVar(doMIDDLE_ImmWordBody, instr)) EXCEPT !.Checked = TRUE]
  ELSE IF instr.AddressingMode \in {"indirect", "indirect+"}
       THEN [WithVars(ForEachVar(doMIDDLE_IndirectBody, instr)) EXCEPT !.Checked = TRUE]
  ELSE IF instr.AddressingMode \in {"indexed", "short-indexed"}
       THEN [WithVars(ForEachVar(doMIDDLE_ShortIndexedBody, instr)) EXCEPT !.Checked = TRUE]
  ELSE IF instr.AddressingMode = "long-indexed"
       THEN [WithVars(ForEachVar(doMIDDLE_LongIndexedBody, instr)) EXCEPT !.Checked = TRUE]
  ELSE [instr EXCEPT !.Vars = EmptyMap]

(***************************************************************************)
(* Pseudocode synthesizer.                                                 *)
(***************************************************************************)
\* instr.Vars[name]; a missing key reads as the zero Variable
VarOf(instr, name) == IF name \in DOMAIN instr.Vars THEN instr.Vars[name] ELSE ZeroVariable

\* the chain of strings.Replace calls doPseudo applies to an operand value
Cosmetic(val) ==
  LET v1  == Replace1(val, "[R_00 ~(Zero Register)]", "")
      v2  == Replace1(v1, "R_", "$r_")
      v3  == Replace1(v2, "[$r_00]", "")
      v4  == Replace1(v3, "$r_00", "0x00")
      v5  == Replace1(v4, "$r_02", "0x11")
      v6  == Replace1(v5, " ~(", " (")
      v7  == Replace1(v6, " ~", "")
      v8  == Replace1(v7, "$r_02 (Ones Register)", "0x11")
      v9  == Replace1(v8, " (Ones Register)", "")
      v10 == Replace1(v9, "#", "0x")
  IN  Replace1(v10, " ( GP Reg RAM )", "")

\* doPseudo: one pass of the loop over VarStrings for a mnemonic other than
\* DJNZ and DJNZW; v is the array [3]string, v[k] of the source is v[k + 1]
doPseudo_Body(instr, v, i) ==
  LET varStr == instr.VarStrings[i]
      val    == Cosmetic(VarOf(instr, varStr).Value)
      type   == VarOf(instr, varStr).Type
  IN  IF type = "DEST"
      THEN [v EXCEPT ![1] = Replace1(Replace1(val, "0x000", "$r_"), "0x", "$r_")]
      ELSE IF type = "ADDR" THEN [v EXCEPT ![1] = val]
      ELSE IF type = "PTRS" THEN [v EXCEPT ![1] = val]
      ELSE IF type = "BYTEREG" THEN [v EXCEPT ![3] = val]
      ELSE [v EXCEPT ![2] = val]

RECURSIVE doPseudo_Loop(_, _, _)
doPseudo_Loop(instr, v, i) ==
  IF i > Len(instr.VarStrings) THEN v
  ELSE IF instr.Mnemonic = "DJNZ" \/ instr.Mnemonic = "DJNZW"
       THEN [v EXCEPT ![1] = VarOf(instr, "cadd").Value, ![2] = VarOf(instr, "breg").Value]
  ELSE doPseudo_Loop(instr, doPseudo_Body(instr, v, i), i + 1)

\* doPseudo: the switch on the mnemonic
doPseudo_Text(m, v) ==
  IF m \in {"CLR", "CLRB"} THEN Sprintf("%s = 0x00", <<v[1]>>)
  ELSE IF m = "EXT" THEN Sprintf("SIGN EXTEND INT %s TO LONG INT", <<v[1]>>)
  ELSE IF m = "EXTB" THEN Sprintf("SIGN EXTEND SHORT INT %s TO INT", <<v[1]>>)
  ELSE IF m \in {"JNST", "JNH", "JGT", "JNC", "JNVT", "JNV", "JGE", "JNE", "JST", "JH",
                 "JLE", "JC", "JVT", "JV", "JLT", "JE"}
       THEN Sprintf("\tJUMP TO: %s", <<v[1]>>)
  ELSE IF m = "JBS"
       THEN Sprintf("if bitno: (%s) of %s is set { JUMP TO: %s }", <<v[2], v[3], v[1]>>)
  ELSE IF m = "JBC"
       THEN Sprintf("if bitno: (%s) of %s is clear { JUMP TO: %s }", <<v[2], v[3], v[1]>>)
  ELSE IF m \in {"LJMP", "SJMP", "EBR", "EJMP"} THEN Sprintf("JUMP TO: %s", <<v[1]>>)
  ELSE IF m \in {"ECALL", "CALL", "SCALL", "LCALL"} THEN Sprintf("CALL SUB_ %s", <<v[1]>>)
  ELSE IF m = "PUSH" THEN Sprintf("PUSH %s ONTO THE STACK", <<v[2]>>)
  ELSE IF m = "POP" THEN Sprintf("POP THE STACK TO %s", <<v[1]>>)
  ELSE IF m \in {"CMPB", "CMP", "CMPL"} THEN Sprintf("if (%s == %s) {", <<v[1], v[2]>>)
  ELSE IF m \in {"ANDB", "AND", "ADDB"} THEN Sprintf("%s = %s & %s", <<v[1], v[1], v[2]>>)
  ELSE IF m \in {"ORB", "OR", "XOR", "XORB"}
       THEN Sprintf("%s = %s %s %s", <<v[1], v[1], m, v[2]>>)
  ELSE IF m \in {"NOT", "NOTB", "NEG", "NEGB"}
       THEN Sprintf("%s = %s %s %s", <<v[1], v[1], m, v[1]>>)
  ELSE IF m \in {"ADD", "ADDC", "ADDCB"} THEN Sprintf("%s = %s + %s", <<v[1], v[1], v[2]>>)
  ELSE IF m \in {"XCH", "XCHB"} THEN Sprintf("%s <=%s=> %s", <<v[1], m, v[2]>>)
  ELSE IF m \in {"SUB", "SUBC", "SUBCB", "SUBB"}
       THEN Sprintf("%s = %s - %s", <<v[1], v[1], v[2]>>)
  ELSE IF m \in {"MUL", "MULB", "MULU", "MULUB", "SGN MUL", "SGN MULB"}
       THEN Sprintf("%s = %s * %s", <<v[1], v[1], v[2]>>)
  ELSE IF m \in {"DIV", "DIVU", "DIVUB", "SGN DIVB", "SGN DIV"}
       THEN Sprintf("%s = %s / %s", <<v[1], v[1], v[2]>>)
  ELSE IF m \in {"SHR", "SHRL", "SHRAL", "SHRB"} THEN Sprintf("%s >> %s", <<v[1], v[2]>>)
  ELSE IF m \in {"SHL", "SHLL", "SHLB", "SHRA"} THEN Sprintf("%s << %s", <<v[1], v[2]>>)
  ELSE IF m \in {"DEC", "DECB"} THEN Sprintf("%s--", <<v[1]>>)
  ELSE IF m \in {"INC", "INCB"} THEN Sprintf("%s++", <<v[1]>>)
  ELSE IF m \in {"LD", "LDB", "ELD", "ELDB", "STB", "ESTB", "ST", "EST", "LDBZE", "LDBSE"}
       THEN Sprintf("%s = %s", <<v[1], v[2]>>)
  ELSE IF m = "NORML" THEN Sprintf("NORMALIZE %s (todo)", <<v[1]>>)
  ELSE IF m \in {"BMOV", "BMOVI"} THEN Sprintf("BMOV %s count(%s) (todo)", <<v[1], v[2]>>)
  ELSE IF m \in {"DJNZ", "DJNZW"}
       THEN Sprintf("%s--; if ( %s != 0 ) { JUMP TO: %s }", <<v[2], v[2], v[1]>>)
  ELSE Sprintf("########### %s = %s", <<v[1], v[2]>>)

\* doPseudo: the mnemonics named by a case of the switch
PseudoMnemonics ==
  {"CLR", "CLRB", "EXT", "EXTB",
   "JNST", "JNH", "JGT", "JNC", "JNVT", "JNV", "JGE", "JNE", "JST", "JH",
   "JLE", "JC", "JVT", "JV", "JLT", "JE", "JBS", "JBC",
   "LJMP", "SJMP", "EBR", "EJMP", "ECALL", "CALL", "SCALL", "LCALL",
   "PUSH", "POP", "CMPB", "CMP", "CMPL", "ANDB", "AND", "ADDB",
   "ORB", "OR", "XOR", "XORB", "NOT", "NOTB", "NEG", "NEGB",
   "ADD", "ADDC", "ADDCB", "XCH", "XCHB", "SUB", "SUBC", "SUBCB", "SUBB",
   "MUL", "MULB", "MULU", "MULUB", "SGN MUL", "SGN MULB",
   "DIV", "DIVU", "DIVUB", "SGN DIVB", "SGN DIV",
   "SHR", "SHRL", "SHRAL", "SHRB", "SHL", "SHLL", "SHLB", "SHRA",
   "DEC", "DECB", "INC", "INCB",
   "LD", "LDB", "ELD", "ELDB", "STB", "ESTB", "ST", "EST", "LDBZE", "LDBSE",
   "NORML", "BMOV", "BMOVI", "DJNZ", "DJNZW"}

doPseudo_NoDefault(instr) ==
  IF instr.Mnemonic \in PseudoMnemonics
  THEN [instr EXCEPT !.PseudoCode =
          doPseudo_Text(instr.Mnemonic, doPseudo_Loop(instr, <<"", "", "">>, 1))]
  ELSE instr

\* func (instr *Instruction) doPseudo()
doPseudo(instr) ==
  [instr EXCEPT !.PseudoCode =
     doPseudo_Text(instr.Mnemonic, doPseudo_Loop(instr, <<"", "", "">>, 1))]

(***************************************************************************)
(* Decoder entry point.                                                    *)
(***************************************************************************)
\* what a caller of Parse observes: "ok" (instruction, nil error), "error"
\* (placeholder, error), or "panic" (an index or slice bound out of range)
Returned(status, instr) == [status |-> status, instr |-> instr]

NoCall == Returned("none", ZeroInstruction)

\* the indices k of the index expressions in[k] that Parse evaluates (lines
\* 14, 21, 33 and 43); in[0] is in[1] here
InputReads(in) ==
  IF Len(in) = 0 THEN {0}
  ELSE IF in[1] = 254 THEN {0, 1}
  ELSE IF in[1] \notin DOMAIN unsignedInstructions THEN {0}
  ELSE LET t == unsignedInstructions[in[1]]
       IN  IF (t.AddressingMode = "indexed" /\ t.VariableLength) \/ t.AddressingMode = "indirect"
           THEN {0, 1}
           ELSE {0}

Disambiguate_SameLength(instr, in) ==
  LET i1 == IF instr.AddressingMode = "indexed" /\ instr.VariableLength
            THEN IF Bit0(in[2]) = 1
                 THEN [instr EXCEPT !.AddressingMode = "long-indexed"]
                 ELSE [instr EXCEPT !.AddressingMode = "short-indexed"]
            ELSE instr
  IN  IF i1.AddressingMode = "indirect"
      THEN IF Bit0(in[2]) = 1
           THEN [i1 EXCEPT !.AddressingMode = "indirect+", !.AutoIncrement = TRUE]
           ELSE i1
      ELSE i1

\* Parse, lines 31 to 47: the addressing-mode variants chosen by in[1]
Disambiguate(instr, in) ==
  LET i1 == IF instr.AddressingMode = "indexed" /\ instr.VariableLength
            THEN IF Bit0(in[2]) = 1
                 THEN [instr EXCEPT !.ByteLength = @ + 1, !.AddressingMode = "long-indexed"]
                 ELSE [instr EXCEPT !.AddressingMode = "short-indexed"]
            ELSE instr
  IN  IF i1.AddressingMode = "indirect"
      THEN IF Bit0(in[2]) = 1
           THEN [i1 EXCEPT !.AddressingMode = "indirect+", !.AutoIncrement = TRUE]
           ELSE i1
      ELSE i1

\* Parse, lines 49 to 53: the signed adjustment of length and mnemonic
SignedAdjust(instr, signed) ==
  IF signed
  THEN [instr EXCEPT !.ByteLength = @ + 1, !.Signed = signed, !.Mnemonic = "SGN " \o @]
  ELSE instr

\* in[lo:hi] of a slice with cap(in) = len(in)
Slice(in, lo, hi) == SubSeq(in, lo + 1, hi)

WithRaw_OneOpcodeByte(instr, in, signed) ==
  [instr EXCEPT !.RawOps = Slice(in, 1, instr.ByteLength),
                !.Raw = Slice(in, 0, instr.ByteLength)]

\* Parse, lines 54 to 59: RawOps and Raw
WithRaw(instr, in, signed) ==
  [instr EXCEPT !.RawOps = Slice(in, IF signed THEN 2 ELSE 1, instr.ByteLength),
                !.Raw = Slice(in, 0, instr.ByteLength)]

ResolverGroup_NibbleFirst(firstByte) ==
  IF HiNibble(firstByte) = 32 THEN "SJMP"
  ELSE IF HiNibble(firstByte) = 48 THEN "JBC"
  ELSE IF HiNibble(firstByte) = 208 THEN "CONDJMP"
  ELSE IF HiNibble(firstByte) = 240 THEN "F0"
  ELSE IF HiNibble(firstByte) = 224 THEN "E0"
  ELSE IF HiNibble(firstByte) = 192 THEN "C0"
  ELSE IF HiThree(firstByte) = 0 THEN "00"
  ELSE "MIDDLE"

\* Parse, lines 64 to 103: the resolver group an opcode value selects
ResolverGroup(firstByte) ==
  IF HiFive(firstByte) = 32 THEN "SJMP"
  ELSE IF HiFive(firstByte) = 40 THEN "SCALL"
  ELSE IF HiFive(firstByte) = 48 THEN "JBC"
  ELSE IF HiFive(firstByte) = 56 THEN "JBS"
  ELSE IF HiNibble(firstByte) = 208 THEN "CONDJMP"
  ELSE IF HiNibble(firstByte) = 240 THEN "F0"
  ELSE IF HiNibble(firstByte) = 224 THEN "E0"
  ELSE IF HiNibble(firstByte) = 192 THEN "C0"
  ELSE IF HiThree(firstByte) = 0 THEN "00"
  ELSE "MIDDLE"

\* Parse, lines 61 to 107: resolve the operands, then the pseudocode
Resolve(instr, firstByte) ==
  IF instr.VarCount > 0
  THEN LET g == ResolverGroup(firstByte)
       IN  doPseudo(IF g = "SJMP" THEN doSJMP(instr)
                    ELSE IF g = "SCALL" THEN doSCALL(instr)
                    ELSE IF g = "JBC" THEN doJBC(instr)
                    ELSE IF g = "JBS" THEN doJBS(instr)
                    ELSE IF g = "CONDJMP" THEN doCONDJMP(instr)
                    ELSE IF g = "F0" THEN doF0(instr)
                    ELSE IF g = "E0" THEN doE0(instr)
                    ELSE IF g = "C0" THEN doC0(instr)
                    ELSE IF g = "00" THEN do00(instr)
                    ELSE doMIDDLE(instr))
  ELSE [instr EXCEPT !.Checked = TRUE]

NotFound_ZeroLength == Returned("error", ZeroInstruction)

\* Parse, line 112: return Instruction{ByteLength: 1}, errors.New(...)
NotFound == Returned("error", [ZeroInstruction EXCEPT !.ByteLength = 1])

\* func Parse(in []byte, address int) (Instruction, error)
Parse(in, address) ==
  IF \E k \in InputReads(in) : k >= Len(in)
  THEN Returned("panic", ZeroInstruction)
  ELSE LET signed       == in[1] = 254
           firstByte    == IF signed THEN in[2] ELSE in[1]
           instructions == IF signed THEN signedInstructions ELSE unsignedInstructions
       IN  IF firstByte \in DOMAIN instructions
           THEN LET i0 == [instructions[firstByte] EXCEPT !.Op = firstByte, !.Signed = signed,
                                                          !.Address = address]
                    i1 == SignedAdjust(Disambiguate(i0, in), signed)
                IN  IF (IF signed THEN 2 ELSE 1) > i1.ByteLength \/ i1.ByteLength > Len(in)
                    THEN Returned("panic", ZeroInstruction)
                    ELSE Returned("ok", Resolve(WithRaw(i1, in, signed), firstByte))
           ELSE NotFound

\* the opcode byte that selects the template
OpcodeOf(in) == IF in[1] = 254 THEN in[2] ELSE in[1]

TableAfterParse_WriteBack(table, isSigned, in, address) ==
  IF Parse(in, address).status = "ok" /\ isSigned = (in[1] = 254)
  THEN [table EXCEPT ![OpcodeOf(in)] = Parse(in, address).instr]
  ELSE table

\* a table after a Parse call: `instruction` is a copy of the map element
\* (line 25), so every assignment to it stays out of the table
TableAfterParse(table, isSigned, in, address) == table

(***************************************************************************)
(* The inputs.                                                             *)
(***************************************************************************)
\* values of the first, second and third byte after the opcode; later bytes
\* repeat the three
FirstBytes  == {2, 5, 16, 17, 240}
SecondBytes == {3, 254}
ThirdBytes  == {0, 240}

\* second bytes after the prefix 0xFE: every signed opcode and some bytes
\* without a signed template
PrefixedBytes == (DOMAIN signedTemplates) \cup {0, 75, 254}

OperandTail(a, b, c, n) == [i \in 1..n |-> <<a, b, c>>[((i - 1) % 3) + 1]]

Images ==
  { <<op>> \o OperandTail(a, b, c, MaxLen - 1) :
      op \in (0..255) \ {254}, a \in FirstBytes, b \in SecondBytes, c \in ThirdBytes }
  \cup
  { <<254, op>> \o OperandTail(a, b, c, MaxLen - 2) :
      op \in PrefixedBytes, a \in FirstBytes, b \in SecondBytes, c \in ThirdBytes }

Bases == { 256 * k : k \in 1..NumBases }

(***************************************************************************)
(* The disassembly of an image: Parse at the current offset, then advance  *)
(* by the returned ByteLength (1 on error); at any point the caller may    *)
(* decode the start of the image once more.                                *)
(***************************************************************************)
Idle == /\ rec = ZeroInstruction
        /\ calls = <<>>
        /\ data = <<>>
        /\ offset = 0

TablesInit == /\ unsignedInstructions = unsignedInstructionsInit
              /\ signedInstructions = signedInstructionsInit
              /\ VarObjs = VarObjsInit

Init == /\ TablesInit
        /\ image \in Images
        /\ base \in Bases
        /\ pos = 0
        /\ pc = "fetch"
        /\ ret = NoCall
        /\ first = NoCall
        /\ Idle

\* the bytes from the current offset to the end of the image
Input == SubSeq(image, pos + 1, Len(image))

CallParse(in, address) ==
  /\ ret' = Parse(in, address)
  /\ unsignedInstructions' = TableAfterParse(unsignedInstructions, FALSE, in, address)
  /\ signedInstructions' = TableAfterParse(signedInstructions, TRUE, in, address)
  /\ UNCHANGED VarObjs

Decode ==
  /\ pc = "fetch"
  /\ pos < Len(image)
  /\ CallParse(Input, base + pos)
  /\ pc' = IF ret'.status = "panic" THEN "panic" ELSE "parsed"
  /\ first' = IF pos = 0 /\ first.status = "none" THEN ret' ELSE first
  /\ UNCHANGED <<image, base, pos, rec, calls, data, offset>>

Advance ==
  /\ pc = "parsed"
  /\ pos' = pos + ret.instr.ByteLength
  /\ pc' = "fetch"
  /\ UNCHANGED <<unsignedInstructions, signedInstructions, VarObjs, image, base, ret, first,
                 rec, calls, data, offset>>

Redecode ==
  /\ pc = "parsed"
  /\ CallParse(image, base)
  /\ pc' = "redecoded"
  /\ UNCHANGED <<image, base, pos, first, rec, calls, data, offset>>

Next == Decode \/ Advance \/ Redecode

Spec == Init /\ [][Next]_vars

(***************************************************************************)
(* The control-flow recorder on its own: a caller issues XRef, Call and    *)
(* Jump on one Instruction and may change its Address between the calls.   *)
(***************************************************************************)
\* number of recorder calls made on the instruction
MaxCalls == 3

\* the cross-reference targets, the call and jump targets and the source
\* addresses that are tried
RecTargets == {-1, 2, 3, 7}
RecEdgeTargets == {-1, 2}
RecAddresses == {256, 512}

InitRec == /\ TablesInit
           /\ image = <<>>
           /\ base = 0
           /\ pos = 0
           /\ pc = "recorder"
           /\ ret = NoCall
           /\ first = NoCall
           /\ rec = [ZeroInstruction EXCEPT !.Address = 256, !.Mnemonic = "LD"]
           /\ calls = <<>>
           /\ data = <<>>
           /\ offset = 0

RecFrame == UNCHANGED <<unsignedInstructions, signedInstructions, VarObjs, image, base, pos,
                        pc, ret, first, data, offset>>

Issued(kind, v) == [kind |-> kind, target |-> v, from |-> rec.Address]

RecXRef ==
  /\ Len(calls) < MaxCalls
  /\ \E v \in RecTargets :
       /\ rec' = XRef(rec, "0x%X", v)
       /\ calls' = Append(calls, Issued("XRef", v))
  /\ RecFrame

RecCall ==
  /\ Len(calls) < MaxCalls
  /\ \E v \in RecEdgeTargets :
       /\ rec' = Call(rec, "0x%X", v)
       /\ calls' = Append(calls, Issued("Call", v))
  /\ RecFrame

RecJump ==
  /\ Len(calls) < MaxCalls
  /\ \E v \in RecEdgeTargets :
       /\ rec' = Jump(rec, "0x%X", v)
       /\ calls' = Append(calls, Issued("Jump", v))
  /\ RecFrame

RecMove ==
  /\ \E a \in RecAddresses \ {rec.Address} : rec' = [rec EXCEPT !.Address = a]
  /\ UNCHANGED calls
  /\ RecFrame

NextRec == RecXRef \/ RecCall \/ RecJump \/ RecMove

SpecRec == InitRec /\ [][NextRec]_vars

(***************************************************************************)
(* The offset calculator on its own.                                       *)
(***************************************************************************)
\* the second bytes that are tried; the first byte takes every value
OffsetLowBytes == {0, 1, 5, 127, 128, 254, 255}

InitOff == /\ TablesInit
           /\ image = <<>>
           /\ base = 0
           /\ pos = 0
           /\ pc = "offset"
           /\ ret = NoCall
           /\ first = NoCall
           /\ rec = ZeroInstruction
           /\ calls = <<>>
           /\ data \in {<<b1, b2>> : b1 \in 0..255, b2 \in OffsetLowBytes}
           /\ offset = 0

CallGetOffset ==
  /\ pc = "offset"
  /\ offset' = getOffset(data)
  /\ pc' = "offset-done"
  /\ UNCHANGED <<unsignedInstructions, signedInstructions, VarObjs, image, base, pos,
                 ret, first, rec, calls, data>>

NextOff == CallGetOffset

SpecOff == InitOff /\ [][NextOff]_vars

(***************************************************************************)
(* Properties.                                                             *)
(***************************************************************************)
\* the arguments of the last Parse call
LastInput == IF pc = "redecoded" THEN image ELSE Input

LastAddress == IF pc = "redecoded" THEN base ELSE base + pos

\* a Parse call has returned (it did not panic)
Decoded == pc \in {"parsed", "redecoded"}

\* a Parse call has returned an instruction and a nil error
DecodedOk == Decoded /\ ret.status = "ok"

\* C1: for every instruction Parse returns without error, Raw is the input
\* prefix in[0:ByteLength], so len(Raw) = ByteLength, and RawOps is Raw
\* without its leading opcode bytes: one byte, two when Signed.
C1_RawAndRawOps ==
  DecodedOk =>
    LET i == ret.instr
        k == IF i.Signed THEN 2 ELSE 1
    IN  /\ i.ByteLength <= Len(LastInput)
        /\ i.Raw = SubSeq(LastInput, 1, i.ByteLength)
        /\ Len(i.Raw) = i.ByteLength
        /\ i.RawOps = SubSeq(i.Raw, k + 1, Len(i.Raw))
        /\ Len(i.RawOps) = i.ByteLength - k

C1_Witness ==
  /\ DecodedOk
  /\ ret.instr.Signed
  /\ ret.instr.AddressingMode = "long-indexed"
  /\ Len(ret.instr.Raw) = 7
  /\ Len(ret.instr.RawOps) = 5

\* the ByteLength of the instruction the bytes of in encode, when in is long
\* enough to hold it: bytes past the end of in are read as 0 to find it
EncodedLength(in) == Parse(in \o <<0>>, 0).instr.ByteLength

CoversInstruction(in) ==
  /\ Parse(in \o <<0>>, 0).status # "panic"
  /\ Len(in) >= EncodedLength(in)

\* C2: for every input at least as long as the instruction it encodes,
\* Parse returns (an instruction or the unknown-opcode error) and reads no
\* input byte at an index >= that ByteLength; a one-byte input holding a
\* one-byte opcode such as RET is decoded without an out-of-range access.
C2_NoReadPastInstruction ==
  (pc \in {"parsed", "redecoded", "panic"} /\ CoversInstruction(LastInput)) =>
    /\ ret.status # "panic"
    /\ \A k \in InputReads(LastInput) : k < EncodedLength(LastInput)

\* C3: Parse returns an error exactly when the selected table has no entry
\* for the opcode byte; the instruction returned with the error has
\* ByteLength 1 and every other field zero; in every other case the error
\* is nil.
C3_ErrorIffNoTemplate ==
  Decoded =>
    LET table == IF LastInput[1] = 254 THEN signedInstructions ELSE unsignedInstructions
    IN  /\ ret.status \in {"ok", "error"}
        /\ (ret.status = "error") <=> (OpcodeOf(LastInput) \notin DOMAIN table)
        /\ ret.status = "error" =>
             /\ ret.instr.ByteLength = 1
             /\ [ret.instr EXCEPT !.ByteLength = 0] = ZeroInstruction

C3_Witness ==
  /\ Decoded
  /\ ret.status = "error"
  /\ LastInput[1] = 254
  /\ LastInput[2] = 75

\* the input without the prefix byte 0xFE
Unprefixed(in) == Tail(in)

\* C4: for every opcode X of the signed table, decoding [0xFE, X, ...] uses
\* the signed template of X, sets Signed and Op = X, returns the mnemonic
\* "SGN " + the template mnemonic, and a ByteLength one greater than the
\* length the same template has without the prefix.
C4_SignedPrefix ==
  (DecodedOk /\ LastInput[1] = 254) =>
    LET X == LastInput[2]
        t == signedInstructions[X]
        i == ret.instr
    IN  /\ X \in DOMAIN signedInstructions
        /\ i.Op = X
        /\ i.Signed
        /\ i.Mnemonic = "SGN " \o t.Mnemonic
        /\ i.VarStrings = t.VarStrings
        /\ i.VarTypes = t.VarTypes
        /\ i.ByteLength = Disambiguate(t, Unprefixed(LastInput)).ByteLength + 1

\* the input with bit 0 of its second byte inverted
FlipSecondBit0(in) ==
  [in EXCEPT ![2] = IF Bit0(@) = 1 THEN @ - 1 ELSE @ + 1]

\* the template Parse selects for an input of at least two bytes
TemplateOf(in) ==
  IF in[1] = 254 THEN signedInstructions[in[2]] ELSE unsignedInstructions[in[1]]

HasTemplate(in) ==
  IF in[1] = 254 THEN in[2] \in DOMAIN signedInstructions
  ELSE in[1] \in DOMAIN unsignedInstructions

\* C5: for every opcode whose template is "indexed" with VariableLength and
\* every pair of inputs for it that differ only in bit 0 of the second byte,
\* the input with the bit set decodes to "long-indexed", the one with the
\* bit clear to "short-indexed", and the first is one byte longer; an
\* "indexed" template without VariableLength keeps its mode and length.
C5_IndexedVariants ==
  (DecodedOk /\ Len(LastInput) >= 2 /\ TemplateOf(LastInput).AddressingMode = "indexed") =>
    LET t     == TemplateOf(LastInput)
        other == FlipSecondBit0(LastInput)
        o     == Parse(other, LastAddress)
        i     == ret.instr
    IN  IF t.VariableLength
        THEN (HasTemplate(other) /\ OpcodeOf(other) = OpcodeOf(LastInput) /\ o.status = "ok") =>
               IF Bit0(LastInput[2]) = 1
               THEN /\ i.AddressingMode = "long-indexed"
                    /\ o.instr.AddressingMode = "short-indexed"
                    /\ i.ByteLength = o.instr.ByteLength + 1
               ELSE /\ i.AddressingMode = "short-indexed"
                    /\ o.instr.AddressingMode = "long-indexed"
                    /\ o.instr.ByteLength = i.ByteLength + 1
        ELSE /\ i.AddressingMode = "indexed"
             /\ i.ByteLength = t.ByteLength

C5_Witness ==
  /\ DecodedOk
  /\ ret.instr.Op = 67
  /\ ~ret.instr.Signed
  /\ Bit0(LastInput[2]) = 1
  /\ ret.instr.AddressingMode = "long-indexed"
  /\ ret.instr.ByteLength = 6
  /\ Parse(FlipSecondBit0(LastInput), LastAddress).status = "ok"
  /\ Parse(FlipSecondBit0(LastInput), LastAddress).instr.ByteLength = 5

\* the only record of a one-record edge list
Only(list) == list[1]

\* C6: for every opcode in 0x20-0x27 (short jump) and 0x28-0x2F (short call),
\* every second byte and every address, the single cadd operand and the
\* recorded edge target are Address + ByteLength + getOffset(opcode, second
\* byte); a short jump records exactly one jump edge and no call edge, a
\* short call exactly one call edge and no jump edge, neither an XRef.
C6_ShortJumpAndCall ==
  (DecodedOk /\ ret.instr.Op \in 32..47 /\ ~ret.instr.Signed) =>
    LET i      == ret.instr
        target == i.Address + i.ByteLength + getOffset(<<LastInput[1], LastInput[2]>>)
    IN  /\ i.Address = LastAddress
        /\ i.ByteLength = 2
        /\ DOMAIN i.Vars = {"cadd"}
        /\ i.Vars["cadd"].Value = "0x" \o FmtHex(target, 0)
        /\ i.XRefs = EmptyMap
        /\ IF i.Op \in 32..39
           THEN /\ DOMAIN i.Jumps = {target}
                /\ Len(i.Jumps[target]) = 1
                /\ Only(i.Jumps[target]).JumpFrom = i.Address
                /\ Only(i.Jumps[target]).JumpTo = target
                /\ i.Calls = EmptyMap
           ELSE /\ DOMAIN i.Calls = {target}
                /\ Len(i.Calls[target]) = 1
                /\ Only(i.Calls[target]).CallFrom = i.Address
                /\ Only(i.Calls[target]).CallTo = target
                /\ i.Jumps = EmptyMap

\* bytes [0x20, 0x05] at 0x100: a jump edge from 0x100 to 0x107
C6_Witness ==
  /\ DecodedOk
  /\ LastInput[1] = 32
  /\ LastInput[2] = 5
  /\ ret.instr.Address = 256
  /\ DOMAIN ret.instr.Jumps = {263}
  /\ ret.instr.Vars["cadd"].Value = "0x107"

\* an 11-bit pattern read as a two's-complement number
AsInt11(w) == IF w % 2048 >= 1024 THEN (w % 2048) - 2048 ELSE w % 2048

\* C7: for every pair of bytes (b1, b2), getOffset returns the 11-bit
\* two's-complement value of the low 3 bits of b1 (high part) and b2 (low
\* part): it lies in -1024..1023, depends on b1 only through b1 & 0x07, and
\* maps (0x03, 0xFF) to 1023, (0x04, 0x00) to -1024 and (0x00, 0x00) to 0.
C7_OffsetIs11BitSigned ==
  pc = "offset-done" =>
    /\ offset = AsInt11((LowThree(data[1]) * 256) + data[2])
    /\ offset \in -1024..1023
    /\ offset = getOffset(<<LowThree(data[1]), data[2]>>)
    /\ (LowThree(data[1]) = 3 /\ data[2] = 255) => offset = 1023
    /\ (LowThree(data[1]) = 4 /\ data[2] = 0) => offset = -1024
    /\ (LowThree(data[1]) = 0 /\ data[2] = 0) => offset = 0

C7_Witness ==
  /\ pc = "offset-done"
  /\ data = <<44, 0>>
  /\ offset = -1024

\* the source addresses under which XRef has recorded the target v after the
\* first n calls: every address from which v was issued, once, in the order
\* of the first issue
RECURSIVE XRefSources(_, _)
XRefSources(v, n) ==
  IF n = 0 THEN <<>>
  ELSE LET before == XRefSources(v, n - 1)
           c      == calls[n]
       IN  IF c.kind = "XRef" /\ c.target = v /\ v > 2
              /\ ~(\E j \in 1..Len(before) : before[j] = c.from)
           THEN Append(before, c.from)
           ELSE before

\* C8: after any sequence of XRef calls on one Instruction whose Address may
\* change between calls, XRef(s, v) has appended one record to XRefs[v] for
\* each call with v > 2 made when no record under v had the current Address
\* as XRefFrom, and changed nothing otherwise: a target issued twice from
\* one source has one entry, from two sources two, and no key <= 2 exists.
C8_XRefDeduplicates ==
  pc = "recorder" =>
    /\ DOMAIN rec.XRefs = {v \in RecTargets : XRefSources(v, Len(calls)) # <<>>}
    /\ \A v \in DOMAIN rec.XRefs :
         /\ v > 2
         /\ [k \in 1..Len(rec.XRefs[v]) |-> rec.XRefs[v][k].XRefFrom]
              = XRefSources(v, Len(calls))
         /\ \A k \in 1..Len(rec.XRefs[v]) : rec.XRefs[v][k].XRefTo = v

C8_Witness ==
  /\ pc = "recorder"
  /\ Len(calls) = 3
  /\ \A k \in 1..3 : calls[k].kind = "XRef" /\ calls[k].target = 3
  /\ calls[1].from = 256
  /\ calls[2].from = 256
  /\ calls[3].from = 512
  /\ Len(rec.XRefs[3]) = 2

\* C9: in every Instruction returned by Parse each of XRefs, Calls and Jumps
\* holds at most one record per (source, target) pair, every record has the
\* instruction's Address as source and its map key as target, and decoding
\* the same bytes at the same address again yields the same edges.
C9_EdgesOncePerPair ==
  DecodedOk =>
    LET i == ret.instr
    IN  /\ \A v \in DOMAIN i.XRefs :
             /\ Len(i.XRefs[v]) = 1
             /\ i.XRefs[v][1].XRefFrom = i.Address
             /\ i.XRefs[v][1].XRefTo = v
        /\ \A v \in DOMAIN i.Calls :
             /\ Len(i.Calls[v]) = 1
             /\ i.Calls[v][1].CallFrom = i.Address
             /\ i.Calls[v][1].CallTo = v
        /\ \A v \in DOMAIN i.Jumps :
             /\ Len(i.Jumps[v]) = 1
             /\ i.Jumps[v][1].JumpFrom = i.Address
             /\ i.Jumps[v][1].JumpTo = v
        /\ pc = "redecoded" =>
             /\ i.XRefs = first.instr.XRefs
             /\ i.Calls = first.instr.Calls
             /\ i.Jumps = first.instr.Jumps

C9_Witness ==
  /\ pc = "redecoded"
  /\ ret.status = "ok"
  /\ ret.instr.Mnemonic = "JBC"
  /\ DOMAIN ret.instr.XRefs = {5}
  /\ DOMAIN ret.instr.Jumps = {ret.instr.Address + 3 + 254}

C12_WalkerReachesEnd ==
  /\ Decoded => ret.instr.ByteLength >= 1
  /\ pc = "panic" => ~CoversInstruction(Input)

\* C13: for every Instruction returned by Parse and every entry of its Vars
\* map, the entry's Type is the VarTypes element at the position of the
\* operand the entry resolves (VarTypes[i] for the operand declared at
\* VarStrings[i]), and no entry has a Type absent from VarTypes.
C13_VarTypesByPosition ==
  DecodedOk =>
    LET i == ret.instr
        t == TemplateOf(LastInput)
    IN  /\ i.VarTypes = t.VarTypes
        /\ \A name \in DOMAIN i.Vars :
             /\ \E k \in 1..Len(t.VarTypes) : i.Vars[name].Type = t.VarTypes[k]
             /\ \A k \in 1..Len(i.VarStrings) :
                  i.VarStrings[k] = name =>
                    /\ k <= Len(t.VarTypes)
                    /\ i.Vars[name].Type = t.VarTypes[k]

C13_Witness ==
  /\ DecodedOk
  /\ ResolverGroup(ret.instr.Op) = "MIDDLE"
  /\ ret.instr.AddressingMode = "long-indexed"
  /\ Len(ret.instr.VarStrings) = 3
  /\ DOMAIN ret.instr.Vars = {ret.instr.VarStrings[k] : k \in 1..3}
  /\ ret.instr.Vars[ret.instr.VarStrings[1]].Type = "DEST"
  /\ ret.instr.Vars[ret.instr.VarStrings[3]].Type = "SRC2"

\* a byte read as an 8-bit two's-complement number
AsInt8(d) == IF d >= 128 THEN d - 256 ELSE d

\* the displacement byte of an instruction with an 8-bit displacement: the
\* last byte of the instruction
Displacement8(in, i) == in[i.ByteLength]

\* C14: for every opcode with an 8-bit displacement (0x30-0x3F, 0xD0-0xDF,
\* 0xE0, 0xE1) and every displacement byte d, the recorded jump target and
\* the cadd operand are Address + ByteLength + s, with s the byte d read as
\* a signed 8-bit value (d - 256 when d >= 0x80).
C14_SignedByteDisplacement ==
  (DecodedOk /\ ~ret.instr.Signed /\ ret.instr.Op \in (48..63) \cup (208..223) \cup {224, 225}) =>
    LET i      == ret.instr
        d      == Displacement8(LastInput, i)
        target == i.Address + i.ByteLength + AsInt8(d)
    IN  /\ DOMAIN i.Jumps = {target}
        /\ "cadd" \in DOMAIN i.Vars
        /\ i.Vars["cadd"].Value = "0x" \o FmtHex(target, 0)

\* C15: for LJMP (0xE7) and LCALL (0xEF) with operand bytes (lo, hi), the
\* target is Address + ByteLength + s, with s the little-endian 16-bit value
\* read as signed (value - 65536 when hi >= 0x80); LJMP records exactly one
\* jump edge to the target and LCALL exactly one call edge to it.
C15_SignedWordDisplacement ==
  (DecodedOk /\ ~ret.instr.Signed /\ ret.instr.Op \in {231, 239}) =>
    LET i      == ret.instr
        s      == AsInt16(Word16(LastInput[2], LastInput[3]))
        target == i.Address + i.ByteLength + s
    IN  /\ i.ByteLength = 3
        /\ i.Vars["cadd"].Value = "0x" \o FmtHex(target, 0)
        /\ IF i.Op = 231
           THEN /\ DOMAIN i.Jumps = {target}
                /\ Len(i.Jumps[target]) = 1
                /\ i.Calls = EmptyMap
           ELSE /\ DOMAIN i.Calls = {target}
                /\ Len(i.Calls[target]) = 1
                /\ i.Jumps = EmptyMap

\* a 24-bit pattern read as a two's-complement number
AsInt24(w) == IF w % 16777216 >= 8388608 THEN (w % 16777216) - 16777216 ELSE w % 16777216

\* C16: for EJMP (0xE6) and ECALL (0xF1) with any three operand bytes and any
\* non-negative address, the recorded target is (Address + ByteLength + s)
\* mod 2^21, with s the little-endian 24-bit displacement read as signed; it
\* lies in 0..0x1FFFFF; EJMP records it as one jump edge, ECALL as one call
\* edge.
C16_ExtendedTargetMod21 ==
  (DecodedOk /\ ~ret.instr.Signed /\ ret.instr.Op \in {230, 241}) =>
    LET i      == ret.instr
        s      == AsInt24(Word24(LastInput[2], LastInput[3], LastInput[4]))
        target == (i.Address + i.ByteLength + s) % 2097152
    IN  /\ i.ByteLength = 4
        /\ target \in 0..2097151
        /\ IF i.Op = 230
           THEN /\ DOMAIN i.Jumps = {target}
                /\ Len(i.Jumps[target]) = 1
                /\ i.Jumps[target][1].JumpTo = target
                /\ i.Calls = EmptyMap
           ELSE /\ DOMAIN i.Calls = {target}
                /\ Len(i.Calls[target]) = 1
                /\ i.Calls[target][1].CallTo = target
                /\ i.Jumps = EmptyMap

\* a displacement with the top bit set: s is negative
C16_Witness ==
  /\ DecodedOk
  /\ ret.instr.Op = 230
  /\ LastInput[4] = 240
  /\ AsInt24(Word24(LastInput[2], LastInput[3], LastInput[4])) < 0
  /\ DOMAIN ret.instr.Jumps
       = {(ret.instr.Address + 4 + Word24(LastInput[2], LastInput[3], LastInput[4])) % 2097152}

\* the little-endian value of the first w bytes of a byte sequence
RECURSIVE LittleEndian(_, _)
LittleEndian(bytes, w) ==
  IF w = 0 THEN 0 ELSE bytes[1] + (256 * LittleEndian(Tail(bytes), w - 1))

\* C17: for every immediate-mode opcode of the middle group (0x40-0xBF, both
\* tables) exactly the last declared operand is formatted as an immediate
\* "#<hex>" (one byte for byte forms, two little-endian bytes for word
\* forms) and every earlier declared operand as the register whose number
\* is its own operand byte; so also for LDBZE immediate (0xAD).
C17_ImmediateIsLastOperand ==
  (DecodedOk /\ ret.instr.Op \in 64..191 /\ ret.instr.AddressingMode = "immediate") =>
    LET i == ret.instr
        n == i.VarCount
        L == Len(i.RawOps)
        w == L - (n - 1)
    IN  /\ n = Len(i.VarStrings)
        /\ w \in {1, 2}
        /\ DOMAIN i.Vars = {i.VarStrings[k] : k \in 1..n}
        /\ i.Vars[i.VarStrings[n]].Value = "#" \o FmtHex(LittleEndian(i.RawOps, w), 2 * w)
        /\ \A k \in 1..(n - 1) :
             i.Vars[i.VarStrings[k]].Value = "R_" \o FmtHex(i.RawOps[L - k + 1], 2)

\* an instruction of the middle group or of the 0xCx group in indirect or
\* indirect+ mode that has operands
IndirectForm(i) ==
  /\ i.Op \in 64..207
  /\ i.AddressingMode \in {"indirect", "indirect+"}
  /\ i.VarCount > 0

\* the operand byte of the operand declared at VarStrings[k]: operands are
\* encoded last declared first
OperandByte(i, k) == i.RawOps[Len(i.RawOps) - k + 1]

\* C18: in indirect and indirect+ mode (middle group and 0xCx group) only
\* the pointer byte RawOps[0] has bit 0 cleared; every other operand byte is
\* reported as the register with exactly that byte's value, so an odd
\* register number in a non-pointer position is displayed as it is.
C18_OnlyPointerMasked ==
  (DecodedOk /\ IndirectForm(ret.instr)) =>
    LET i == ret.instr
        L == Len(i.RawOps)
    IN  \A k \in 1..Len(i.VarStrings) :
          IF k = L
          THEN SubSeq(i.Vars[i.VarStrings[k]].Value, 1, 5)
                 = "[R_" \o FmtHex(ClearBit0(i.RawOps[1]), 2)
          ELSE i.Vars[i.VarStrings[k]].Value = "R_" \o FmtHex(OperandByte(i, k), 2)

\* C19: for every indirect-mode opcode the pointer operand is formatted
\* "[R_xx]" when bit 0 of the pointer byte is clear and "[R_xx]+" (the plus
\* after the closing bracket) when it is set, xx being the pointer byte with
\* bit 0 cleared; the middle-group resolver and the 0xCx-group resolver give
\* the same string for the same pointer byte.
C19_PointerFormat ==
  (DecodedOk /\ IndirectForm(ret.instr) /\ Len(ret.instr.RawOps) <= Len(ret.instr.VarStrings)) =>
    LET i       == ret.instr
        pointer == i.RawOps[1]
        operand == i.VarStrings[Len(i.RawOps)]
    IN  i.Vars[operand].Value
          = "[R_" \o FmtHex(ClearBit0(pointer), 2) \o "]"
              \o (IF Bit0(pointer) = 1 THEN "+" ELSE "")

\* C20: for every two-operand opcode in "extended-indirect" mode (EST 0x1C,
\* ESTB 0x1E, ELD 0xE8, ELDB 0xEA) the treg operand is resolved from
\* RawOps[0] and formatted as the bracketed pointer "[R_xx]", the other
\* declared operand is the plain register RawOps[1] formatted "R_xx"; the
\* store forms are resolved like the load forms, never as an immediate.
C20_ExtendedIndirectOperands ==
  (DecodedOk /\ ~ret.instr.Signed /\ ret.instr.AddressingMode = "extended-indirect"
     /\ ret.instr.VarCount = 2) =>
    LET i == ret.instr
    IN  /\ DOMAIN i.Vars = {"treg", i.VarStrings[1]}
        /\ i.Vars["treg"].Value = "[R_" \o FmtHex(i.RawOps[1], 2) \o "]"
        /\ i.Vars[i.VarStrings[1]].Value = "R_" \o FmtHex(i.RawOps[2], 2)

\* C21: in the generic reverse walk of the low-opcode group (0x00-0x1F other
\* than 0x1D and 0x1F) an operand is formatted as an immediate "#<hex>" if
\* and only if opcode bit 3 is set, the opcode is not 0x0F, the operand is
\* the one resolved from RawOps[0] and that byte is below 0x10; in every
\* other case the declared operand i is the register "R_xx" with the number
\* RawOps[len(RawOps)-1-i].
C21_LowGroupImmediate ==
  (DecodedOk /\ ret.instr.Op \in (0..31) \ {29, 31} /\ ret.instr.VarCount > 0) =>
    LET i == ret.instr
        L == Len(i.RawOps)
    IN  \A k \in 1..Len(i.VarStrings) :
          LET value == i.Vars[i.VarStrings[k]].Value
              byte  == OperandByte(i, k)
          IN  IF Bit3Set(i.Op) /\ i.Op # 15 /\ k = L /\ i.RawOps[1] < 16
              THEN value = "#" \o FmtHex(byte, 2)
              ELSE value = "R_" \o FmtHex(byte, 2)

C21_Witness ==
  /\ DecodedOk
  /\ ret.instr.Op = 8
  /\ ret.instr.RawOps = <<2, 3>>
  /\ ret.instr.Vars[ret.instr.VarStrings[1]].Value = "R_03"
  /\ ret.instr.Vars[ret.instr.VarStrings[2]].Value = "#02"

\* an instruction of the middle group or of the 0xCx group in direct mode
\* that has operands
DirectForm(i) ==
  /\ i.Op \in 64..207
  /\ i.AddressingMode = "direct"
  /\ i.VarCount > 0

\* every declared operand i of a direct form is the register "R_xx" with the
\* number RawOps[len(RawOps)-1-i]
DirectOperandsAreRegisters(i) ==
  \A k \in 1..Len(i.VarStrings) :
    i.Vars[i.VarStrings[k]].Value = "R_" \o FmtHex(OperandByte(i, k), 2)

\* C22 as stated: for every direct-mode opcode each declared operand i is
\* the register RawOps[len(RawOps)-1-i], formatted "R_xx", and every such
\* register number, whatever its value, is a key of the returned XRefs.
C22_DirectRegistersAllReferenced ==
  (DecodedOk /\ DirectForm(ret.instr)) =>
    LET i == ret.instr
    IN  /\ DirectOperandsAreRegisters(i)
        /\ \A k \in 1..Len(i.VarStrings) : OperandByte(i, k) \in DOMAIN i.XRefs

\* C22 amended: each declared operand i of a direct-mode opcode is the
\* register RawOps[len(RawOps)-1-i], formatted "R_xx"; the keys of the
\* returned XRefs are exactly the register numbers greater than 2, the
\* registers 0, 1 and 2 are not cross-referenced.
C22_DirectRegistersReferencedAbove2 ==
  (DecodedOk /\ DirectForm(ret.instr)) =>
    LET i == ret.instr
    IN  /\ DirectOperandsAreRegisters(i)
        /\ DOMAIN i.XRefs
             = {OperandByte(i, k) : k \in 1..Len(i.VarStrings)} \ (0..2)

C22_Witness ==
  /\ DecodedOk
  /\ ret.instr.Op = 100
  /\ ret.instr.AddressingMode = "direct"
  /\ ret.instr.RawOps = <<2, 3>>
  /\ ret.instr.Vars[ret.instr.VarStrings[1]].Value = "R_03"
  /\ ret.instr.Vars[ret.instr.VarStrings[2]].Value = "R_02"
  /\ DOMAIN ret.instr.XRefs = {3}

\* a decode of 0xE3 is tagged by bit 0 of its operand byte r, and holds
\* exactly one jump edge, keyed by the register number r & 0xFE
BranchTagAndJump(i, r) ==
  LET reg == ClearBit0(r)
  IN  /\ IF Bit0(r) = 0
         THEN i.Mnemonic = "BR" /\ i.AddressingMode = "indirect"
         ELSE i.Mnemonic = "EBR" /\ i.AddressingMode = "extended-indirect"
      /\ DOMAIN i.Jumps = {reg}
      /\ Len(i.Jumps[reg]) = 1
      /\ i.Calls = EmptyMap

\* C23 as stated: for every decode of 0xE3 with operand byte r, bit 0 of r
\* clear re-tags the instruction "BR" / "indirect", otherwise it stays "EBR"
\* / "extended-indirect" with the register r & 0xFE; in both cases it holds
\* exactly one jump edge and exactly one cross-reference edge, both keyed by
\* that register number.
C23_BranchOneJumpOneXRef ==
  (DecodedOk /\ ~ret.instr.Signed /\ ret.instr.Op = 227) =>
    LET i   == ret.instr
        reg == ClearBit0(i.RawOps[1])
    IN  /\ BranchTagAndJump(i, i.RawOps[1])
        /\ DOMAIN i.XRefs = {reg}
        /\ Len(i.XRefs[reg]) = 1

\* C23 amended: the tag and the one jump edge are as stated; the instruction
\* holds exactly one cross-reference edge keyed by the register number when
\* that number is greater than 2, and no cross-reference edge when it is 0
\* or 2.
C23_BranchOneJumpXRefAbove2 ==
  (DecodedOk /\ ~ret.instr.Signed /\ ret.instr.Op = 227) =>
    LET i   == ret.instr
        reg == ClearBit0(i.RawOps[1])
    IN  /\ BranchTagAndJump(i, i.RawOps[1])
        /\ IF reg > 2
           THEN DOMAIN i.XRefs = {reg} /\ Len(i.XRefs[reg]) = 1
           ELSE i.XRefs = EmptyMap

\* BR through register 2: a jump edge and no cross-reference
C23_Witness ==
  /\ DecodedOk
  /\ ret.instr.Op = 227
  /\ ret.instr.RawOps = <<2>>
  /\ ret.instr.Mnemonic = "BR"
  /\ DOMAIN ret.instr.Jumps = {2}
  /\ ret.instr.XRefs = EmptyMap

\* the source addresses of the calls of one kind ("Call" or "Jump") issued
\* with the target v among the first n recorder calls, in invocation order
RECURSIVE EdgeSources(_, _, _)
EdgeSources(kind, v, n) ==
  IF n = 0 THEN <<>>
  ELSE IF calls[n].kind = kind /\ calls[n].target = v
       THEN Append(EdgeSources(kind, v, n - 1), calls[n].from)
       ELSE EdgeSources(kind, v, n - 1)

\* C24: Call and Jump apply no magnitude filter and no de-duplication: after
\* any sequence of recorder calls on one Instruction, for any v, 2 and
\* negative values included, Calls[v] (Jumps[v]) holds exactly one record
\* per Call(s, v) (Jump(s, v)) invocation, in invocation order, and neither
\* operation changes XRefs or the other edge map.
C24_CallJumpAppendAlways ==
  pc = "recorder" =>
    LET n == Len(calls)
    IN  /\ DOMAIN rec.Calls = {v \in RecEdgeTargets : EdgeSources("Call", v, n) # <<>>}
        /\ \A v \in DOMAIN rec.Calls :
             /\ [k \in 1..Len(rec.Calls[v]) |-> rec.Calls[v][k].CallFrom]
                  = EdgeSources("Call", v, n)
             /\ \A k \in 1..Len(rec.Calls[v]) : rec.Calls[v][k].CallTo = v
        /\ DOMAIN rec.Jumps = {v \in RecEdgeTargets : EdgeSources("Jump", v, n) # <<>>}
        /\ \A v \in DOMAIN rec.Jumps :
             /\ [k \in 1..Len(rec.Jumps[v]) |-> rec.Jumps[v][k].JumpFrom]
                  = EdgeSources("Jump", v, n)
             /\ \A k \in 1..Len(rec.Jumps[v]) : rec.Jumps[v][k].JumpTo = v
        /\ DOMAIN rec.XRefs = {v \in RecTargets : XRefSources(v, n) # <<>>}

\* Call(2) twice from one address, then Jump(-1)
C24_Witness ==
  /\ pc = "recorder"
  /\ Len(calls) = 3
  /\ calls[1] = [kind |-> "Call", target |-> 2, from |-> 256]
  /\ calls[2] = [kind |-> "Call", target |-> 2, from |-> 256]
  /\ calls[3] = [kind |-> "Jump", target |-> -1, from |-> 256]
  /\ Len(rec.Calls[2]) = 2
  /\ Len(rec.Jumps[-1]) = 1
  /\ rec.XRefs = EmptyMap

\* the resolver groups whose bit-pattern test an opcode value passes, each
\* test taken on its own
MatchingTests(op) ==
  {g \in {"SJMP", "SCALL", "JBC", "JBS", "CONDJMP", "F0", "E0", "C0", "00"} :
     \/ g = "SJMP" /\ HiFive(op) = 32
     \/ g = "SCALL" /\ HiFive(op) = 40
     \/ g = "JBC" /\ HiFive(op) = 48
     \/ g = "JBS" /\ HiFive(op) = 56
     \/ g = "CONDJMP" /\ HiNibble(op) = 208
     \/ g = "F0" /\ HiNibble(op) = 240
     \/ g = "E0" /\ HiNibble(op) = 224
     \/ g = "C0" /\ HiNibble(op) = 192
     \/ g = "00" /\ HiThree(op) = 0}

\* the resolver of one group followed by the pseudocode synthesizer
RunGroup(g, instr) ==
  doPseudo(CASE g = "SJMP" -> doSJMP(instr)
             [] g = "SCALL" -> doSCALL(instr)
             [] g = "JBC" -> doJBC(instr)
             [] g = "JBS" -> doJBS(instr)
             [] g = "CONDJMP" -> doCONDJMP(instr)
             [] g = "F0" -> doF0(instr)
             [] g = "E0" -> doE0(instr)
             [] g = "C0" -> doC0(instr)
             [] g = "00" -> do00(instr)
             [] OTHER -> doMIDDLE(instr))

\* the instruction as Parse holds it before the operands are resolved
Unresolved(in, address) ==
  LET signed == in[1] = 254
      table  == IF signed THEN signedInstructions ELSE unsignedInstructions
      i0     == [table[OpcodeOf(in)] EXCEPT !.Op = OpcodeOf(in), !.Signed = signed,
                                            !.Address = address]
  IN  WithRaw(SignedAdjust(Disambiguate(i0, in), signed), in, signed)

\* C25: for every decoded instruction with VarCount > 0, signed-prefixed or
\* not, the opcode value passes the bit-pattern test of at most one resolver
\* group (the tests are mutually exclusive), and the instruction is the
\* result of exactly that group (the middle group when it passes none),
\* whatever the order of the tests.
C25_OneGroupByOpcode ==
  (DecodedOk /\ ret.instr.VarCount > 0) =>
    LET m == MatchingTests(ret.instr.Op)
        u == Unresolved(LastInput, LastAddress)
    IN  /\ ret.instr.Op = OpcodeOf(LastInput)
        /\ Cardinality(m) <= 1
        /\ \A g \in m : ret.instr = RunGroup(g, u)
        /\ m = {} => ret.instr = RunGroup("MIDDLE", u)

\* a short call (0x28..0x2F) and a signed-prefixed middle-group opcode
C25_Witness ==
  /\ DecodedOk
  /\ ret.instr.VarCount > 0
  /\ \/ MatchingTests(ret.instr.Op) = {"SCALL"} /\ ret.instr.Mnemonic = "SCALL"
     \/ ret.instr.Signed /\ MatchingTests(ret.instr.Op) = {}

\* C26: for a signed-prefixed instruction [0xFE, X, operands...] the
\* long-indexed/short-indexed choice and the indirect/indirect+ choice follow
\* bit 0 of the first operand byte (the byte after X), as they do without the
\* prefix, and a signed indirect operand with bit 0 set has AutoIncrement.
C26_SignedModeFromOperand ==
  (DecodedOk /\ LastInput[1] = 254) =>
    LET t == signedInstructions[LastInput[2]]
        i == ret.instr
        b == Bit0(LastInput[3])
    IN  /\ (t.AddressingMode = "indexed" /\ t.VariableLength) =>
             i.AddressingMode = (IF b = 1 THEN "long-indexed" ELSE "short-indexed")
        /\ t.AddressingMode = "indirect" =>
             /\ i.AddressingMode = (IF b = 1 THEN "indirect+" ELSE "indirect")
             /\ i.AutoIncrement = (b = 1)

\* the operand names a template declares
DeclaredNames(i) == {i.VarStrings[k] : k \in 1..Len(i.VarStrings)}

\* C27: for every instruction Parse returns with Checked = true and
\* VarCount > 0, the key set of Vars equals the set of operand names in
\* VarStrings; DJNZW (0xE1), whose declared names are wreg and cadd, included.
C27_VarsKeysAreDeclaredNames ==
  (DecodedOk /\ ret.instr.Checked /\ ret.instr.VarCount > 0) =>
    DOMAIN ret.instr.Vars = DeclaredNames(ret.instr)

\* C28: every instruction that Parse returns without error has Checked =
\* true: a zero-operand template is marked directly, with no Vars, no
\* PseudoCode and no edges, and for every opcode with VarCount > 0 in either
\* table, TIJMP (0xE2) and EBMOVI (0xE4) included, the resolver group leaves
\* a non-empty Vars map and marks completion.
C28_AlwaysChecked ==
  DecodedOk =>
    LET i == ret.instr
    IN  /\ i.Checked
        /\ i.VarCount = 0 =>
             /\ i.Vars = EmptyMap
             /\ i.PseudoCode = ""
             /\ i.XRefs = EmptyMap /\ i.Calls = EmptyMap /\ i.Jumps = EmptyMap
        /\ i.VarCount > 0 => i.Vars # EmptyMap

\* the destination and source strings doPseudo substitutes for a resolved
\* instruction
PseudoOperands(i) == doPseudo_Loop(i, <<"", "", "">>, 1)

\* C29: the pseudocode operator matches the mnemonic family: every add
\* mnemonic (ADD, ADDB, ADDC, ADDCB) yields "dst = dst + src", every and
\* mnemonic (AND, ANDB) "dst = dst & src", every mapped shift-right mnemonic
\* (SHR, SHRB, SHRL, SHRA, SHRAL) "dst >> src" and every shift-left mnemonic
\* (SHL, SHLB, SHLL) "dst << src".
C29_OperatorMatchesFamily ==
  (DecodedOk /\ ret.instr.VarCount > 0) =>
    LET i == ret.instr
        v == PseudoOperands(i)
    IN  /\ i.Mnemonic \in {"ADD", "ADDB", "ADDC", "ADDCB"} =>
             i.PseudoCode = v[1] \o " = " \o v[1] \o " + " \o v[2]
        /\ i.Mnemonic \in {"AND", "ANDB"} =>
             i.PseudoCode = v[1] \o " = " \o v[1] \o " & " \o v[2]
        /\ i.Mnemonic \in {"SHR", "SHRB", "SHRL", "SHRA", "SHRAL"} =>
             i.PseudoCode = v[1] \o " >> " \o v[2]
        /\ i.Mnemonic \in {"SHL", "SHLB", "SHLL"} =>
             i.PseudoCode = v[1] \o " << " \o v[2]

\* the decoded input selects a template with operands whose mnemonic, with
\* the "SGN " prefix when signed, is named by no case of the pseudocode switch
Unmapped ==
  /\ Decoded
  /\ ret.status # "panic"
  /\ HasTemplate(LastInput)
  /\ TemplateOf(LastInput).VarCount > 0
  /\ (IF LastInput[1] = 254 THEN "SGN " \o TemplateOf(LastInput).Mnemonic
      ELSE TemplateOf(LastInput).Mnemonic) \notin PseudoMnemonics

\* C30: for every decoded instruction with VarCount > 0 whose (possibly
\* "SGN "-prefixed) mnemonic has no pseudocode template, Parse returns a nil
\* error and PseudoCode is the placeholder "??? dst = src" with the resolved
\* destination and source strings substituted, never the empty string.
C30_PlaceholderQuestionMarks ==
  Unmapped =>
    LET v == PseudoOperands(ret.instr)
    IN  /\ ret.status = "ok"
        /\ ret.instr.PseudoCode # ""
        /\ ret.instr.PseudoCode = "??? " \o v[1] \o " = " \o v[2]

\* C30 (amended): for every such instruction Parse returns a nil error and
\* PseudoCode is the placeholder "########### dst = src" with the resolved
\* destination and source strings substituted, never the empty string.
C30_PlaceholderHashMarks ==
  Unmapped =>
    LET v == PseudoOperands(ret.instr)
    IN  /\ ret.status = "ok"
        /\ ret.instr.PseudoCode # ""
        /\ ret.instr.PseudoCode = "########### " \o v[1] \o " = " \o v[2]

\* SHRAB and the signed-prefixed MYSTERY, both with resolved operands
C30_Witness ==
  /\ Unmapped
  /\ DecodedOk
  /\ ret.instr.Mnemonic \in {"SHRAB", "SGN MYSTERY"}
  /\ ret.instr.Checked
  /\ ret.instr.Vars # EmptyMap

====
